---- MODULE Spec2Model ----
(***************************************************************************)
(* Reactive liquidation pipeline of the MORE liquidation bot               *)
(* (src/index.js): the control loop runLoop, the WebSocket block trigger   *)
(* handleNewBlock, the quick check of hot positions, the prepared fast     *)
(* path executePreparedLiquidation, the full scan and slow-path executor   *)
(* main, the background preparers prepareLiquidationParams and             *)
(* batchPreparePositions, the failure blacklist and the prepared cache.    *)
(*                                                                         *)
(* Scheduling: one JavaScript event loop.  A step of the model is the code *)
(* a task runs between two awaits; a task's pc names the await it is       *)
(* suspended at.  Chain reads return values chosen by the environment.     *)
(***************************************************************************)
EXTENDS Integers, Sequences, FiniteSets, TLC

(***************************************************************************)
(* Bounds of the model                                                     *)
(***************************************************************************)
NumBorrowers == 2      \* borrowers the indexer returns
MaxHandlers  == 2      \* handleNewBlock activations that can be suspended at once
MaxJobs      == 2      \* background preparations that can be suspended at once
MaxBlock     == 2      \* block numbers the subscription delivers
MaxTicks     == 2      \* clock advances in a behaviour
MaxFailCount == 3      \* cap of a blacklist entry's failure counter
StartTime    == 600000 \* Date.now() when the bot starts

Borrowers == 1..NumBorrowers
LoopTask  == 0
Handlers  == 1..MaxHandlers
Tasks     == 0..MaxHandlers
Jobs      == 1..MaxJobs
Blocks    == 1..MaxBlock

(***************************************************************************)
(* Program constants                                                       *)
(***************************************************************************)
MAX_FAILURES_BEFORE_BLACKLIST == 3
BLACKLIST_TTL_MS == 300000
PREPARED_TTL_MS  == 30000
HOT_TTL_MS       == 300000
LOOP_INTERVAL_MS == 60000
MIN_DEBT_USD     == 1
CLOSE_FACTOR     == 50
INTEREST_BUFFER_BPS == 10
\* ethers' constants.MaxUint256 is 2^256 - 1; the model uses the largest
\* integer it can represent, which is above every amount it draws.
MaxUint256       == 2147483647
\* Health factors are carried in units of 1e16, so 1.00 is 100.
WeiPerEther      == 100
HotThreshold     == 110
PrepareThreshold == 105

\* Clock steps: the prepared TTL and the blacklist TTL, so that both TTL
\* boundaries are met exactly (one step) and crossed (two steps).
TickSteps == {PREPARED_TTL_MS, BLACKLIST_TTL_MS}

\* What getUserAccountData can return for a borrower: healthFactor (1e16
\* units) and totalDebtBase (whole USD).  One value per case the code tells
\* apart: liquidatable (two debts, for the sort), liquidatable dust, at the
\* boundary 1.00, warm below 1.05, warm above 1.05, healthy.
AccountData ==
  { [hf |-> 95,  debt |-> 5], [hf |-> 95,  debt |-> 0],
    [hf |-> 100, debt |-> 2], [hf |-> 104, debt |-> 2],
    [hf |-> 107, debt |-> 2], [hf |-> 120, debt |-> 5] }

VARIABLES
  now,                  \* Date.now()
  ticks,                \* clock advances so far
  failedPositions,      \* Map user -> [failures, lastAttempt]
  hotPositions,         \* Map user -> [lastUpdate], in insertion order
  preparedLiquidations, \* Map user -> [timestamp, sParam]
  preparingUsers,       \* Set of users being prepared
  lastBlockNumber,      \* handleNewBlock's high-water mark
  wsConnection,         \* TRUE while the WebSocket object exists
  lastFullScan,         \* runLoop's local
  task,                 \* task id -> activation record of runLoop / handleNewBlock
  job,                  \* job id -> activation record of a background preparation
  qcCount,              \* block number -> quick checks started by its handlers
  sizing,               \* main's sizing of one borrower's liquidation, and its lParam
  swap,                 \* main's swap parameters for one strategy attempt
  failureLog,           \* user -> times of the failures recorded in its blacklist entry
  svc                   \* supporting components, one field each (see IdleSvc)

\* The variables of the reactive pipeline (all but sizing).
pipeline == <<now, ticks, failedPositions, hotPositions, preparedLiquidations,
              preparingUsers, lastBlockNumber, wsConnection, lastFullScan,
              task, job, qcCount>>

\* The variables of the per-liquidation computations, which the pipeline's
\* actions leave alone.
offline == <<sizing, swap, failureLog, svc>>

vars == <<now, ticks, failedPositions, hotPositions, preparedLiquidations,
          preparingUsers, lastBlockNumber, wsConnection, lastFullScan,
          task, job, qcCount, sizing, swap, failureLog, svc>>

(***************************************************************************)
(* JavaScript Map helpers                                                  *)
(***************************************************************************)
MapHas(m, k) == k \in DOMAIN m

MapSet(m, k, v) == [x \in DOMAIN m \cup {k} |-> IF x = k THEN v ELSE m[x]]

MapDelete(m, k) == [x \in DOMAIN m \ {k} |-> m[x]]

EmptyMap == [x \in {} |-> 0]

SeqToSet(s) == {s[i] : i \in 1..Len(s)}

(***************************************************************************)
(* Blacklist of failed liquidations (failedPositions)                      *)
(***************************************************************************)
recordFailedLiquidation(fp, user, t) ==
  LET existing == IF MapHas(fp, user) THEN fp[user]
                  ELSE [failures |-> 0, lastAttempt |-> 0]
  IN MapSet(fp, user, [failures |-> existing.failures + 1, lastAttempt |-> t])

\* The failure counter is unbounded in the code; the model stops counting at
\* MaxFailCount.
CanRecord(fp, user) == MapHas(fp, user) => fp[user].failures < MaxFailCount

\* A faulty expiry test that ends the blacklist at exactly 5 minutes; C14
\* has to tell it from BlacklistExpired.
BlacklistExpiredEarly(fp, user, t) ==
  MapHas(fp, user) /\ t - fp[user].lastAttempt >= BLACKLIST_TTL_MS

BlacklistExpired(fp, user, t) ==
  MapHas(fp, user) /\ t - fp[user].lastAttempt > BLACKLIST_TTL_MS

\* Value returned by shouldSkipPosition(user) at time t.
shouldSkipPosition(fp, user, t) ==
  /\ MapHas(fp, user)
  /\ ~BlacklistExpired(fp, user, t)
  /\ fp[user].failures >= MAX_FAILURES_BEFORE_BLACKLIST

\* failedPositions after shouldSkipPosition(user) ran at time t.
shouldSkipPositionEffect(fp, user, t) ==
  IF BlacklistExpired(fp, user, t) THEN MapDelete(fp, user) ELSE fp

clearFailedPosition(fp, user) == MapDelete(fp, user)

\* A caller records a failure of user now.  failureLog keeps the times of
\* the failures counted in the entry.
RecordFailure(user) ==
  /\ CanRecord(failedPositions, user)
  /\ failedPositions' = recordFailedLiquidation(failedPositions, user, now)
  /\ failureLog' = [failureLog EXCEPT
                      ![user] = IF MapHas(failedPositions, user)
                                THEN Append(@, now) ELSE <<now>>]
  /\ UNCHANGED <<now, ticks, hotPositions, preparedLiquidations, preparingUsers,
                 lastBlockNumber, wsConnection, lastFullScan, task, job, qcCount,
                 sizing, swap, svc>>

\* A caller asks shouldSkipPosition(user) now: an expired entry is deleted.
CheckSkip(user) ==
  /\ failedPositions' = shouldSkipPositionEffect(failedPositions, user, now)
  /\ failureLog' = [failureLog EXCEPT
                      ![user] = IF BlacklistExpired(failedPositions, user, now)
                                THEN <<>> ELSE @]
  /\ UNCHANGED <<now, ticks, hotPositions, preparedLiquidations, preparingUsers,
                 lastBlockNumber, wsConnection, lastFullScan, task, job, qcCount,
                 sizing, swap, svc>>

(***************************************************************************)
(* Prepared-liquidation cache (preparedLiquidations)                       *)
(***************************************************************************)
NullPrepared == [has |-> FALSE, timestamp |-> 0, sParam |-> FALSE]

\* A faulty expiry test that lets an entry live for twice the TTL; C5 has to
\* tell it from PreparedExpired.
PreparedExpiredLate(pl, user, t) ==
  MapHas(pl, user) /\ t - pl[user].timestamp > 2 * PREPARED_TTL_MS

PreparedExpired(pl, user, t) ==
  MapHas(pl, user) /\ t - pl[user].timestamp > PREPARED_TTL_MS

\* Value returned by getPreparedParams(user) at time t.
getPreparedParams(pl, user, t) ==
  IF ~MapHas(pl, user) THEN NullPrepared
  ELSE IF PreparedExpired(pl, user, t) THEN NullPrepared
  ELSE [has |-> TRUE, timestamp |-> pl[user].timestamp, sParam |-> pl[user].sParam]

\* preparedLiquidations after getPreparedParams(user) ran at time t.
getPreparedParamsEffect(pl, user, t) ==
  IF PreparedExpired(pl, user, t) THEN MapDelete(pl, user) ELSE pl

cleanExpiredPrepared(pl, t) ==
  [x \in {u \in DOMAIN pl : ~(t - pl[u].timestamp > PREPARED_TTL_MS)} |-> pl[x]]

(***************************************************************************)
(* Hot-position tracker (hotPositions): a Map, kept as the sequence of its *)
(* entries in insertion order                                              *)
(***************************************************************************)
HotUsers(hp) == [i \in 1..Len(hp) |-> hp[i].user]

HotHas(hp, user) == \E i \in 1..Len(hp) : hp[i].user = user

\* hotPositions.set(user, {..., lastUpdate: t})
HotSet(hp, user, t) ==
  IF HotHas(hp, user)
  THEN [i \in 1..Len(hp) |->
          IF hp[i].user = user THEN [user |-> user, lastUpdate |-> t] ELSE hp[i]]
  ELSE Append(hp, [user |-> user, lastUpdate |-> t])

\* const hotData = hotPositions.get(user); if (hotData) hotData.lastUpdate = t
HotTouch(hp, user, t) == IF HotHas(hp, user) THEN HotSet(hp, user, t) ELSE hp

RECURSIVE HotSetAll(_, _, _)
HotSetAll(hp, users, t) ==
  IF users = <<>> THEN hp
  ELSE HotSetAll(HotSet(hp, Head(users), t), Tail(users), t)

\* Entries not seen in the last 5 minutes are deleted.
HotEvict(hp, t) ==
  LET fiveMinutesAgo == t - HOT_TTL_MS
      Keep(e) == ~(e.lastUpdate < fiveMinutesAgo)
  IN SelectSeq(hp, Keep)

(***************************************************************************)
(* Cohorts of a full scan (main, step 3)                                   *)
(***************************************************************************)
IsLiquidatable(d) == d.hf <= WeiPerEther /\ d.hf > 0

IsDust(d) == d.debt < MIN_DEBT_USD

IsWarm(d) == d.hf < HotThreshold /\ d.hf >= WeiPerEther /\ ~IsDust(d)

RECURSIVE SortByDebt(_, _)
\* Array.sort by totalDebtBase descending; the sort is stable, so ties keep
\* the order of the indexer's list.
SortByDebt(S, data) ==
  IF S = {} THEN <<>>
  ELSE LET m == CHOOSE x \in S : \A y \in S :
                   \/ data[x].debt > data[y].debt
                   \/ data[x].debt = data[y].debt /\ x <= y
       IN <<m>> \o SortByDebt(S \ {m}, data)

RECURSIVE SortByPriority(_, _)
\* Array.sort by debt / hf descending (compared by cross-multiplication).
SortByPriority(S, data) ==
  IF S = {} THEN <<>>
  ELSE LET m == CHOOSE x \in S : \A y \in S :
                   \/ data[x].debt * data[y].hf > data[y].debt * data[x].hf
                   \/ data[x].debt * data[y].hf = data[y].debt * data[x].hf /\ x <= y
       IN <<m>> \o SortByPriority(S \ {m}, data)

\* unhealthyUsers of main.  Dust borrowers stay in the code's list and are
\* passed over by `continue` before anything is written, so the list of the
\* model leaves them out.
RECURSIVE SortByDebtAscending(_, _)
\* The same list smallest debt first.
SortByDebtAscending(S, data) ==
  IF S = {} THEN <<>>
  ELSE LET m == CHOOSE x \in S : \A y \in S :
                   \/ data[x].debt < data[y].debt
                   \/ data[x].debt = data[y].debt /\ x <= y
       IN <<m>> \o SortByDebtAscending(S \ {m}, data)

\* The liquidatable borrowers in the opposite order; C35 has to tell it from
\* unhealthyUsers.
UnhealthyUsersAscending(data) ==
  SortByDebtAscending({u \in DOMAIN data : IsLiquidatable(data[u]) /\ ~IsDust(data[u])}, data)

UnhealthyUsers(data) ==
  SortByDebt({u \in DOMAIN data : IsLiquidatable(data[u]) /\ ~IsDust(data[u])}, data)

WideUnhealthyUsers(data) ==
  SortByPriority({u \in DOMAIN data : IsWarm(data[u])}, data)

(***************************************************************************)
(* quickCheckHotPositions: the forEach over the multicall results          *)
(***************************************************************************)
\* One iteration of results.returnData.forEach for `user` with account data d.
\* acc carries the maps the loop writes and the lists it builds.
QuickVisit(acc, user, d, t, preparing) ==
  IF IsDust(d) THEN acc
  ELSE IF shouldSkipPosition(acc.fp, user, t) THEN acc
  ELSE
    LET fp1  == shouldSkipPositionEffect(acc.fp, user, t)
        got  == getPreparedParams(acc.pl, user, t)
        pl1  == getPreparedParamsEffect(acc.pl, user, t)
    IN IF IsLiquidatable(d)
       THEN [acc EXCEPT !.fp = fp1, !.pl = pl1,
                        !.liq = Append(@, [user |-> user, prepared |-> got])]
       ELSE LET asks == d.hf < PrepareThreshold /\ user \notin preparing
            IN [acc EXCEPT !.fp = fp1,
                           !.hp = HotTouch(@, user, t),
                           !.pl = IF asks THEN pl1 ELSE @,
                           !.toPrepare = IF asks /\ ~got.has
                                         THEN @ \cup {user} ELSE @]

RECURSIVE QuickFold(_, _, _, _, _)
QuickFold(acc, users, data, t, preparing) ==
  IF users = <<>> THEN acc
  ELSE QuickFold(QuickVisit(acc, Head(users), data[Head(users)], t, preparing),
                 Tail(users), data, t, preparing)

\* batchPreparePositions(positions), up to its first await: the users it marks
\* as preparing.  (quickCheckHotPositions passes at most 8 positions, fewer
\* than BATCH_CHUNK_SIZE, so the chunking branch is not taken.)
BatchToProcess(positions, preparing, pl) ==
  {u \in positions : u \notin preparing /\ ~MapHas(pl, u)}

(***************************************************************************)
(* Activation records                                                      *)
(*                                                                         *)
(* pc of a task (runLoop is task 0, handleNewBlock activations are 1..):   *)
(*   idle      runLoop sleeping / handler slot free                        *)
(*   qc        quickCheckHotPositions awaiting its multicall               *)
(*   fast      executePreparedLiquidation awaiting the gas price           *)
(*   fastwait  fast-path transaction sent, awaiting the receipt            *)
(*   scan      main awaiting the indexer and the health multicalls         *)
(*   gate      main awaiting the balance reads of Head(todo)               *)
(*   fresh     borrower selected, awaiting the fresh health factor         *)
(*   recovered fresh health factor above 1, awaiting sendInfo              *)
(*   sim       awaiting a callStatic simulation                            *)
(*   wait      slow-path transaction sent, awaiting the receipt            *)
(*   post      receipt ok, awaiting the balance and price reads            *)
(*   ret       main returned to runLoop                                    *)
(* start is runLoop's local `now`, block is handleNewBlock's argument.     *)
(***************************************************************************)
IdleTask ==
  [pc |-> "idle", block |-> 0, start |-> 0, hotUsers |-> <<>>, liq |-> <<>>,
   handledFast |-> 0, nLiq |-> 0, todo |-> <<>>, freshHF |-> 0, simd |-> FALSE,
   sentAge |-> 0]

\* pc of a job: idle, balances (awaiting the balance multicall), sizing
\* (prepareLiquidationParams awaiting strategy, sizer and swap parameters),
\* quotes (batchPreparePositions awaiting decimals, prices and quotes).
IdleJob == [pc |-> "idle", kind |-> "none", toProcess |-> {}, assets |-> {}]

\* pc of a sizing: idle, read (balances read), sized (debtToCover computed),
\* adjusted (liquidity cap applied), emitted (lParam built and sent), skipped.
\* maxAmount is <<>> when the strategy selector reports no liquidity cap.
IdleSizing ==
  [pc |-> "idle", userDebt |-> 0, debtBalanceInmToken |-> 0, maxAmount |-> <<>>,
   debtToCover |-> 0, effectiveDebtToCover |-> 0,
   lParam |-> [amount |-> 0, debtToCover |-> 0]]

InitPipeline ==
  /\ now = StartTime
  /\ ticks = 0
  /\ failedPositions = EmptyMap
  /\ hotPositions = <<>>
  /\ preparedLiquidations = EmptyMap
  /\ preparingUsers = {}
  /\ lastBlockNumber = 0
  /\ wsConnection = TRUE
  /\ lastFullScan = 0
  /\ task = [t \in Tasks |-> IdleTask]
  /\ job = [j \in Jobs |-> IdleJob]
  /\ qcCount = [n \in Blocks |-> 0]

\* pc of a swap: idle, start (amount and slippage known), built (parameters
\* of one strategy and slippage level built); in the slippage loop: loop (at
\* the head of the body for `level`), simulating (awaiting callStatic),
\* waiting (transaction sent, awaiting tx.wait()), done (receipt with status
\* 1, break), exhausted (the loop ran out of levels), failed (lastError
\* thrown and caught).  simResult is what the simulation of each level
\* answered; sent lists the amountOutMin of the transactions submitted;
\* lastError is the reason of the last error caught.
IdleSwap ==
  [pc |-> "idle", amount |-> 0, dynamicSlippageBps |-> 0, strategy |-> "none",
   level |-> 0, amountOutMin |-> 0,
   simResult |-> <<"none", "none", "none">>, sent |-> <<>>, lastError |-> "none"]

NoFailures == [u \in Borrowers |-> <<>>]

\* The adaptive sizer: the profit estimate of each ladder percentage (what
\* estimateLiquidationProfit / the batch quotes give for it, NoEstimate for a
\* throw or a missing quote), the gas estimate of the call, and the
\* percentage returned (0 for null).
IdleSizer ==
  [pc |-> "idle", profitUsd |-> <<>>, estimatedGas |-> 0, best |-> 0,
   recorded |-> FALSE]

\* One retryWithBackoff call: attempt is the loop counter, calls counts the
\* invocations of fn, errors lists what they threw, delays the sleeps (ms).
IdleRetry ==
  [pc |-> "idle", attempt |-> 0, calls |-> 0, errors |-> <<>>, delays |-> <<>>]

\* The dual RPC system and runLoop's error counter: provider is the endpoint
\* of the read provider, outcomes lists how the loop iterations ended and
\* alerts the "Bot Error" alert each of them sent (none, error, count), sent
\* is the set of <<read endpoint at the time, endpoint used>> of the
\* transactions submitted.
IdleRpc ==
  [provider |-> "PUBLIC_RPC", usingAlchemyFallback |-> FALSE,
   consecutiveErrors |-> 0, outcomes |-> <<>>, alerts |-> <<>>, sent |-> {}]

\* The WebSocket block listener after runLoop's connectWebSocket(): socket is
\* the state of the socket object (wsConnection is null exactly when socket
\* is "none"), timer tells whether a setTimeout(connectWebSocket) is pending,
\* delays lists the reconnect delays since the last 'open', iterations is
\* the set of runLoop iterations without a full scan seen so far: the state
\* of the listener, whether there were hot positions, whether they were
\* polled, and the sleep that followed.
IdleWs ==
  [socket |-> "connecting", timer |-> FALSE, wsReconnectAttempts |-> 0,
   delays |-> <<>>, iterations |-> {}]

\* A call of batchPreparePositions: positions is the number of positions to
\* process, toProcess the number not yet handed to a chunk, batches the
\* sequence of the batchGetSwapQuotes calls made so far, each with the number
\* of quote pairs it was given, the number of pool quotes built from them and
\* the number of aggregate3 calls it issued.
IdleQuotes == [pc |-> "idle", positions |-> 0, toProcess |-> 0, batches |-> <<>>]

\* The price caches: priceCache is the Map of src/index.js, pricing the
\* priceCache of a PricingService, both empty at start; now is Date.now();
\* last describes the last read call: the function, and for every token it
\* was asked the cache entry found, its age, whether the oracle was read and
\* answered, and what the caller got.
Tokens == {"WFLOW", "USDF"}

NoEntry == [present |-> FALSE, price |-> 0, timestamp |-> 0]

IdlePrice ==
  [now |-> 0,
   priceCache |-> [t \in Tokens |-> NoEntry],
   pricing |-> [t \in Tokens |-> NoEntry],
   last |-> [fn |-> "none", reads |-> {}]]

\* A StrategyManager.execute call: strategies is the list handed to
\* tryStrategiesInOrder, next the index of the strategy the loop is at, tried
\* the strategies tried so far with how each ended, usedStrategy the result.
IdleStrategies ==
  [pc |-> "idle", strategies |-> <<>>, next |-> 1, tried |-> <<>>,
   usedStrategy |-> "none"]

\* The for loop of main over unhealthyUsers on its own clock: pc is idle,
\* body (at the top of the loop body), try (awaiting the fresh health
\* factor), sim (simulating and sending), sleep or done; todo is what is left
\* of unhealthyUsers, start the time the current body began, and turns lists
\* for each borrower whether the simulations were reached and when its turn
\* began and ended.
IdleBackpressure ==
  [pc |-> "idle", todo |-> <<>>, clock |-> 0, start |-> 0, turns |-> <<>>]

IdleSvc ==
  [sizer |-> IdleSizer, retry |-> IdleRetry, rpc |-> IdleRpc, ws |-> IdleWs,
   quotes |-> IdleQuotes, price |-> IdlePrice, strategies |-> IdleStrategies,
   backpressure |-> IdleBackpressure]

Init ==
  /\ InitPipeline
  /\ sizing = IdleSizing
  /\ swap = IdleSwap
  /\ failureLog = NoFailures
  /\ svc = IdleSvc

\* The task's record becomes r.
Commit(t, r) == task' = [task EXCEPT ![t] = r]

\* The caller's frame of r: what runLoop / handleNewBlock keep across calls.
Frame(r) == [IdleTask EXCEPT !.block = r.block, !.start = r.start]

\* main() is entered.
EnterMain(r) == [Frame(r) EXCEPT !.pc = "scan"]

\* main() returned normally: runLoop goes on to `lastFullScan = now`,
\* handleNewBlock ends.
MainReturn(t, r) == IF t = LoopTask THEN [Frame(r) EXCEPT !.pc = "ret"] ELSE IdleTask

\* `continue` / end of the body of main's for loop over unhealthyUsers.
MainNext(t, r) ==
  IF Tail(r.todo) = <<>> THEN MainReturn(t, r)
  ELSE [r EXCEPT !.pc = "gate", !.todo = Tail(r.todo), !.freshHF = 0, !.simd = FALSE]

RECURSIVE DropUnprepared(_)
\* for (const liq of quickLiquidatable) { if (liq.prepared) ... }
DropUnprepared(liq) ==
  IF liq = <<>> THEN <<>>
  ELSE IF Head(liq).prepared.has THEN liq
  ELSE DropUnprepared(Tail(liq))

\* The fast-path loop of handleNewBlock / runLoop from `rest` on, and what
\* follows it: main() if some liquidatable borrower was not handled.
ContinueFast(r, rest, handled) ==
  LET rest2 == DropUnprepared(rest)
  IN IF rest2 # <<>>
     THEN [r EXCEPT !.pc = "fast", !.liq = rest2, !.handledFast = handled]
     ELSE IF handled < r.nLiq THEN EnterMain(r)
     ELSE IdleTask

\* quickCheckHotPositions returned liq to handleNewBlock / runLoop.
AfterQuick(r, liq) ==
  IF liq = <<>> THEN IdleTask
  ELSE ContinueFast([r EXCEPT !.nLiq = Len(liq), !.hotUsers = <<>>], liq, 0)

\* Activations are numbered in the order the slots become free.
FreeHandler(h) ==
  /\ task[h].pc = "idle"
  /\ \A k \in Handlers : k < h => task[k].pc # "idle"

FreeJob(j) ==
  /\ job[j].pc = "idle"
  /\ \A k \in Jobs : k < j => job[k].pc # "idle"

(***************************************************************************)
(* Environment                                                             *)
(***************************************************************************)
Tick(d) ==
  /\ ticks < MaxTicks
  /\ now' = now + d
  /\ ticks' = ticks + 1
  /\ UNCHANGED <<offline, failedPositions, hotPositions, preparedLiquidations,
                 preparingUsers, lastBlockNumber, wsConnection, lastFullScan,
                 task, job, qcCount>>

\* wsConnection.on('close'): wsConnection = null
WsClose ==
  /\ wsConnection
  /\ wsConnection' = FALSE
  /\ UNCHANGED <<offline, now, ticks, failedPositions, hotPositions, preparedLiquidations,
                 preparingUsers, lastBlockNumber, lastFullScan, task, job, qcCount>>

\* setTimeout(connectWebSocket, delay): wsConnection = new WebSocket(wsUrl)
WsReconnect ==
  /\ ~wsConnection
  /\ wsConnection' = TRUE
  /\ UNCHANGED <<offline, now, ticks, failedPositions, hotPositions, preparedLiquidations,
                 preparingUsers, lastBlockNumber, lastFullScan, task, job, qcCount>>

(***************************************************************************)
(* Block trigger                                                           *)
(***************************************************************************)
\* A faulty guard that lets the last processed block through again; C7 has to
\* tell it from BlockIsStale.
BlockIsStaleStrict(blockNumber, last) == blockNumber < last

\* Guard of handleNewBlock: the block is dropped when it is not newer than
\* the last one processed.
BlockIsStale(blockNumber, last) == blockNumber <= last

\* A newHeads message with block number n: handleNewBlock(n) up to its first
\* await (inside quickCheckHotPositions).  The message handler does not await
\* the activation, so it starts whatever the other activations are doing.
HandleNewBlock(n) ==
  /\ wsConnection
  /\ IF BlockIsStale(n, lastBlockNumber)
     THEN UNCHANGED vars
     ELSE /\ lastBlockNumber' = n
          /\ IF hotPositions = <<>>
             THEN UNCHANGED <<preparedLiquidations, task, qcCount>>
             ELSE \E h \in Handlers :
                    /\ FreeHandler(h)
                    /\ task' = [task EXCEPT ![h] =
                                  [IdleTask EXCEPT !.pc = "qc", !.block = n,
                                                   !.hotUsers = HotUsers(hotPositions)]]
                    /\ preparedLiquidations' =
                         cleanExpiredPrepared(preparedLiquidations, now)
                    /\ qcCount' = [qcCount EXCEPT ![n] = @ + 1]
          /\ UNCHANGED <<now, ticks, failedPositions, hotPositions, preparingUsers,
                         wsConnection, lastFullScan, job, offline>>

(***************************************************************************)
(* Control loop                                                            *)
(***************************************************************************)
\* One iteration of runLoop's while (true), up to its first await.
LoopIterate ==
  /\ task[LoopTask].pc = "idle"
  /\ IF now - lastFullScan >= LOOP_INTERVAL_MS
     THEN /\ Commit(LoopTask, EnterMain([IdleTask EXCEPT !.start = now]))
          /\ UNCHANGED preparedLiquidations
     ELSE /\ ~wsConnection
          /\ hotPositions # <<>>
          /\ Commit(LoopTask, [IdleTask EXCEPT !.pc = "qc", !.start = now,
                                               !.hotUsers = HotUsers(hotPositions)])
          /\ preparedLiquidations' = cleanExpiredPrepared(preparedLiquidations, now)
  /\ UNCHANGED <<offline, now, ticks, failedPositions, hotPositions, preparingUsers,
                 lastBlockNumber, wsConnection, lastFullScan, job, qcCount>>

\* `lastFullScan = now` after `await main()`.
LoopReturn ==
  /\ task[LoopTask].pc = "ret"
  /\ lastFullScan' = task[LoopTask].start
  /\ task' = [task EXCEPT ![LoopTask] = IdleTask]
  /\ UNCHANGED <<offline, now, ticks, failedPositions, hotPositions, preparedLiquidations,
                 preparingUsers, lastBlockNumber, wsConnection, job, qcCount>>

(***************************************************************************)
(* Quick check and fast path                                               *)
(***************************************************************************)
\* quickCheckHotPositions from the multicall's answer to its return, followed
\* by the caller's code up to its next await; data is what getUserAccountData
\* returned for each user.  The multicall may throw: the catch returns the
\* (still empty) list.  batchPreparePositions is called
\* without await and runs up to its own first await inside this step.
\* The forEach over the multicall's answer and what follows it up to the
\* return.  (The position list is cut to its 8 lowest health factors before
\* batchPreparePositions is called; the model tracks fewer borrowers.)
QuickCheckObserved(t, data) ==
  LET acc0 == [fp |-> failedPositions, pl |-> preparedLiquidations,
               hp |-> hotPositions, liq |-> <<>>, toPrepare |-> {}]
      acc  == QuickFold(acc0, task[t].hotUsers, data, now, preparingUsers)
      toProcess ==
        IF acc.toPrepare # {} /\ acc.liq = <<>>
        THEN BatchToProcess(acc.toPrepare, preparingUsers, acc.pl)
        ELSE {}
  IN /\ failedPositions' = acc.fp
     /\ preparedLiquidations' = acc.pl
     /\ hotPositions' = acc.hp
     /\ IF toProcess # {}
        THEN /\ \E j \in Jobs :
                  /\ FreeJob(j)
                  /\ job' = [job EXCEPT ![j] =
                               [pc |-> "balances", kind |-> "batch",
                                toProcess |-> toProcess, assets |-> {}]]
             /\ preparingUsers' = preparingUsers \cup toProcess
        ELSE UNCHANGED <<job, preparingUsers>>
     /\ Commit(t, AfterQuick(task[t], acc.liq))

QuickCheckResult(t, data) ==
  /\ task[t].pc = "qc"
  /\ SeqToSet(task[t].hotUsers) \subseteq DOMAIN data
  /\ \/ /\ Commit(t, AfterQuick(task[t], <<>>))
        /\ UNCHANGED <<failedPositions, hotPositions, preparedLiquidations,
                       preparingUsers, job>>
     \/ QuickCheckObserved(t, data)
  /\ UNCHANGED <<offline, now, ticks, lastBlockNumber, wsConnection, lastFullScan, qcCount>>

\* executePreparedLiquidation from the gas price's answer to the await of
\* tx.wait().  An entry written by batchPreparePositions has no swap
\* parameters and no strategy, so building the call throws and the catch
\* runs; getGasPrice and the send may throw for any entry.  There is no
\* callStatic before the send.
FastSend(t) ==
  /\ task[t].pc = "fast"
  /\ LET item == Head(task[t].liq)
     IN \/ /\ item.prepared.sParam
           /\ Commit(t, [task[t] EXCEPT !.pc = "fastwait",
                                        !.sentAge = now - item.prepared.timestamp])
           /\ UNCHANGED preparedLiquidations
        \/ /\ preparedLiquidations' = MapDelete(preparedLiquidations, item.user)
           /\ Commit(t, ContinueFast(task[t], Tail(task[t].liq), task[t].handledFast))
  /\ UNCHANGED <<offline, now, ticks, failedPositions, hotPositions, preparingUsers,
                 lastBlockNumber, wsConnection, lastFullScan, job, qcCount>>

\* failedPositions after executePreparedLiquidation got its receipt: the
\* function does not touch the blacklist.
FastSuccessEffect(fp, user) == fp

\* executePreparedLiquidation from the receipt on.  Success and failure both
\* delete the prepared entry.
FastReceipt(t) ==
  /\ task[t].pc = "fastwait"
  /\ LET item == Head(task[t].liq)
         r    == [task[t] EXCEPT !.sentAge = 0]
     IN /\ preparedLiquidations' = MapDelete(preparedLiquidations, item.user)
        /\ \/ /\ failedPositions' = FastSuccessEffect(failedPositions, item.user)
              /\ Commit(t, ContinueFast(r, Tail(r.liq), r.handledFast + 1))
           \/ /\ UNCHANGED failedPositions
              /\ Commit(t, ContinueFast(r, Tail(r.liq), r.handledFast))
  /\ UNCHANGED <<offline, now, ticks, hotPositions, preparingUsers, lastBlockNumber,
                 wsConnection, lastFullScan, job, qcCount>>

(***************************************************************************)
(* Full scan (main)                                                        *)
(***************************************************************************)
\* main from the indexer's and the health multicalls' answers to the first
\* await of the loop over unhealthyUsers; data is what getUserAccountData
\* returned for each user of the indexer's list.  A throw leaves main:
\* runLoop's and handleNewBlock's catch take it.
MainScanResult(t, data) ==
  /\ task[t].pc = "scan"
  /\ \/ /\ Commit(t, IdleTask)
        /\ UNCHANGED hotPositions
     \/   LET todo == UnhealthyUsers(data)
          IN /\ hotPositions' =
                  HotEvict(HotSetAll(hotPositions, WideUnhealthyUsers(data), now), now)
             /\ Commit(t, IF todo = <<>> THEN MainReturn(t, task[t])
                          ELSE [task[t] EXCEPT !.pc = "gate", !.todo = todo])
  /\ UNCHANGED <<offline, now, ticks, failedPositions, preparedLiquidations, preparingUsers,
                 lastBlockNumber, wsConnection, lastFullScan, job, qcCount>>

\* main's loop body for Head(todo) from the balance reads to the blacklist
\* gate.  The reads are outside the per-borrower try: a throw leaves main.
\* A borrower without collateral or debt, or whose amount is dust, is passed
\* over before the gate.
MainGate(t) ==
  /\ task[t].pc = "gate"
  /\ LET user == Head(task[t].todo)
     IN \/ /\ Commit(t, IdleTask)
           /\ UNCHANGED failedPositions
        \/ /\ Commit(t, MainNext(t, task[t]))
           /\ UNCHANGED failedPositions
        \/ IF shouldSkipPosition(failedPositions, user, now)
           THEN /\ Commit(t, MainNext(t, task[t]))
                /\ UNCHANGED failedPositions
           ELSE /\ failedPositions' = shouldSkipPositionEffect(failedPositions, user, now)
                /\ Commit(t, [task[t] EXCEPT !.pc = "fresh"])
  /\ UNCHANGED <<offline, now, ticks, hotPositions, preparedLiquidations, preparingUsers,
                 lastBlockNumber, wsConnection, lastFullScan, job, qcCount>>

\* Health factors the fresh read can return (1e16 units): liquidatable, at
\* the boundary, recovered.
FreshHealthFactors == {95, 100, 102}

\* A faulty recovery test that only aborts above the tracked band; C17 has to
\* tell it from HFRecovered.
HFRecoveredAboveBand(freshHF) == freshHF > HotThreshold

\* if (freshHF.gt(constants.WeiPerEther))
HFRecovered(freshHF) == freshHF > WeiPerEther

\* The fresh health-factor read inside the per-borrower try answered with
\* freshHF, or threw (the catch records nothing for a read error and the loop
\* goes on to the next borrower).  A recovered position awaits sendInfo.
MainFresh(t, freshHF) ==
  /\ task[t].pc = "fresh"
  /\ \/ Commit(t, MainNext(t, task[t]))
     \/ Commit(t, [task[t] EXCEPT !.freshHF = freshHF,
                                  !.pc = IF HFRecovered(freshHF)
                                         THEN "recovered" ELSE "sim"])
  /\ UNCHANGED <<offline, now, ticks, failedPositions, hotPositions, preparedLiquidations,
                 preparingUsers, lastBlockNumber, wsConnection, lastFullScan,
                 job, qcCount>>

\* await sendInfo("Skipped ... HF recovered") answered (sendInfo swallows its
\* own errors); continue.
MainRecovered(t) ==
  /\ task[t].pc = "recovered"
  /\ Commit(t, MainNext(t, task[t]))
  /\ UNCHANGED <<offline, now, ticks, failedPositions, hotPositions, preparedLiquidations,
                 preparingUsers, lastBlockNumber, wsConnection, lastFullScan,
                 job, qcCount>>

\* catch (err) of the per-borrower try: the failure is recorded only for a
\* swap or profit error.
MainCatch(t, isSwapOrProfitError) ==
  /\ IF isSwapOrProfitError
     THEN /\ CanRecord(failedPositions, Head(task[t].todo))
          /\ failedPositions' =
               recordFailedLiquidation(failedPositions, Head(task[t].todo), now)
     ELSE UNCHANGED failedPositions
  /\ Commit(t, MainNext(t, task[t]))

\* A callStatic simulation answered: it passed and the transaction is sent,
\* or every strategy and slippage tier is exhausted and lastError is thrown.
MainSim(t) ==
  /\ task[t].pc = "sim"
  /\ \/ /\ Commit(t, [task[t] EXCEPT !.pc = "wait", !.simd = TRUE])
        /\ UNCHANGED failedPositions
     \/ \E e \in BOOLEAN : MainCatch(t, e)
  /\ UNCHANGED <<offline, now, ticks, hotPositions, preparedLiquidations, preparingUsers,
                 lastBlockNumber, wsConnection, lastFullScan, job, qcCount>>

\* tx.wait() answered: a receipt, or a revert that sends the code to the next
\* tier or strategy (a new simulation).
MainReceipt(t) ==
  /\ task[t].pc = "wait"
  /\ \/ Commit(t, [task[t] EXCEPT !.pc = "post"])
     \/ Commit(t, [task[t] EXCEPT !.pc = "sim", !.simd = FALSE])
  /\ UNCHANGED <<offline, now, ticks, failedPositions, hotPositions, preparedLiquidations,
                 preparingUsers, lastBlockNumber, wsConnection, lastFullScan,
                 job, qcCount>>

\* After the receipt: balance and price reads, then clearFailedPosition.  A
\* throwing read goes to the catch before the entry is cleared.
MainPost(t) ==
  /\ task[t].pc = "post"
  /\ \/ /\ failedPositions' = clearFailedPosition(failedPositions, Head(task[t].todo))
        /\ Commit(t, MainNext(t, task[t]))
     \/ \E e \in BOOLEAN : MainCatch(t, e)
  /\ UNCHANGED <<offline, now, ticks, hotPositions, preparedLiquidations, preparingUsers,
                 lastBlockNumber, wsConnection, lastFullScan, job, qcCount>>

(***************************************************************************)
(* Background preparation                                                  *)
(***************************************************************************)
\* Guard at the head of prepareLiquidationParams.
\* A faulty test that looks at the sentinel only; C40 has to tell it from
\* AlreadyPreparing.
AlreadyPreparingSentinelOnly(user, preparing, pl) == user \in preparing

AlreadyPreparing(user, preparing, pl) == user \in preparing \/ MapHas(pl, user)

\* preparingUsers after the catch of batchPreparePositions:
\* toProcess.forEach(p => preparingUsers.delete(p.user)).
BatchCatchRelease(preparing, toProcess) == preparing \ toProcess

\* prepareLiquidationParams(user) for a hot borrower, up to its first await.
\* (index.js defines the function; its callers are outside the file.)
PrepareLiquidationParams(user) ==
  /\ HotHas(hotPositions, user)
  /\ ~AlreadyPreparing(user, preparingUsers, preparedLiquidations)
  /\ \E j \in Jobs :
       /\ FreeJob(j)
       /\ job' = [job EXCEPT ![j] = [pc |-> "balances", kind |-> "single",
                                     toProcess |-> {user}, assets |-> {user}]]
  /\ preparingUsers' = preparingUsers \cup {user}
  /\ UNCHANGED <<offline, now, ticks, failedPositions, hotPositions, preparedLiquidations,
                 lastBlockNumber, wsConnection, lastFullScan, task, qcCount>>

\* The balance multicall of a preparation answered.
\*   single: a throw releases the sentinel; a borrower without collateral or
\*           debt makes the function return null with the sentinel in place.
\*   batch:  a throw releases every sentinel of toProcess; borrowers without
\*           collateral or debt are released one by one and the others go on.
JobBalances(j) ==
  /\ job[j].pc = "balances"
  /\ IF job[j].kind = "single"
     THEN \/ /\ preparingUsers' = preparingUsers \ job[j].toProcess
             /\ job' = [job EXCEPT ![j] = IdleJob]
          \/ /\ UNCHANGED preparingUsers
             /\ job' = [job EXCEPT ![j] = IdleJob]
          \/ /\ UNCHANGED preparingUsers
             /\ job' = [job EXCEPT ![j].pc = "sizing"]
     ELSE \/ /\ preparingUsers' = BatchCatchRelease(preparingUsers, job[j].toProcess)
             /\ job' = [job EXCEPT ![j] = IdleJob]
          \/ \E ok \in SUBSET job[j].toProcess :
               /\ preparingUsers' = preparingUsers \ (job[j].toProcess \ ok)
               /\ job' = [job EXCEPT ![j] =
                            IF ok = {} THEN IdleJob
                            ELSE [job[j] EXCEPT !.pc = "quotes", !.assets = ok]]
  /\ UNCHANGED <<offline, now, ticks, failedPositions, hotPositions, preparedLiquidations,
                 lastBlockNumber, wsConnection, lastFullScan, task, qcCount>>

RECURSIVE StoreAll(_, _, _)
\* preparedLiquidations.set for every borrower of a batch with a usable quote.
StoreAll(pl, users, t) ==
  IF users = {} THEN pl
  ELSE LET u == CHOOSE x \in users : TRUE
       IN StoreAll(MapSet(pl, u, [timestamp |-> t, sParam |-> FALSE]), users \ {u}, t)

\* The last awaits of a preparation answered.
\*   single: throw / nothing profitable (recorded as a failure) / entry stored
\*           with strategy and swap parameters; the sentinel is released.
\*   batch:  throw (every sentinel of toProcess released) / the final loop
\*           stores an entry or not for each remaining borrower and releases
\*           its sentinel.
JobFinish(j) ==
  /\ job[j].pc \in {"sizing", "quotes"}
  /\ IF job[j].kind = "single"
     THEN LET user == CHOOSE u \in job[j].toProcess : TRUE
          IN /\ preparingUsers' = preparingUsers \ {user}
             /\ \/ UNCHANGED <<failedPositions, preparedLiquidations>>
                \/ /\ CanRecord(failedPositions, user)
                   /\ failedPositions' = recordFailedLiquidation(failedPositions, user, now)
                   /\ UNCHANGED preparedLiquidations
                \/ /\ preparedLiquidations' =
                        MapSet(preparedLiquidations, user,
                               [timestamp |-> now, sParam |-> TRUE])
                   /\ UNCHANGED failedPositions
     ELSE /\ UNCHANGED failedPositions
          /\ \/ /\ preparingUsers' = BatchCatchRelease(preparingUsers, job[j].toProcess)
                /\ UNCHANGED preparedLiquidations
             \/ \E good \in SUBSET job[j].assets :
                  /\ preparedLiquidations' = StoreAll(preparedLiquidations, good, now)
                  /\ preparingUsers' = preparingUsers \ job[j].assets
  /\ job' = [job EXCEPT ![j] = IdleJob]
  /\ UNCHANGED <<offline, now, ticks, hotPositions, lastBlockNumber, wsConnection,
                 lastFullScan, task, qcCount>>

(***************************************************************************)
(* Sizing of a slow-path liquidation (main) and the lParam it encodes      *)
(***************************************************************************)
\* const maxLiquidatable = userDebt.mul(CLOSE_FACTOR).div(100n)
MaxLiquidatable(userDebt) == (userDebt * CLOSE_FACTOR) \div 100

\* debtToCover before the buffer: the smallest of the user's debt, the debt
\* token's balance in the mToken and the close-factor cap.
CapDebt(userDebt, debtBalanceInmToken) ==
  LET available == IF userDebt > debtBalanceInmToken
                   THEN debtBalanceInmToken ELSE userDebt
  IN IF available > MaxLiquidatable(userDebt)
     THEN MaxLiquidatable(userDebt) ELSE available

\* debtToCover.mul(10000n + INTEREST_BUFFER_BPS).div(10000n)
AddInterestBuffer(amount) == (amount * (10000 + INTEREST_BUFFER_BPS)) \div 10000

\* adjustedDebtToCover: the strategy selector's liquidity cap, when it
\* reports one below debtToCover.
AdjustedDebtToCover(debtToCover, maxAmount) ==
  IF maxAmount # <<>> /\ maxAmount[1] < debtToCover THEN maxAmount[1] ELSE debtToCover

\* The debtToCover field of lParam.
EncodedDebtToCover(userDebt, debtBalanceInmToken) ==
  IF userDebt > debtBalanceInmToken THEN debtBalanceInmToken ELSE MaxUint256

\* What the balance reads of main can return for a borrower that has debt:
\* amounts below and above the point where the 0.1% buffer adds a unit, a
\* token balance below, at and above the user's debt, and a liquidity cap
\* that is absent, zero, binding or not binding.
UserDebtValues    == {1, 1999, 2000, 20001}
DebtBalanceValues == {0, 1, 1000, 2000, 30000}
MaxAmountValues   == {<<>>, <<0>>, <<500>>, <<20000>>}

\* main read userDebt and debtBalanceInmToken and computes debtToCover; a
\* borrower with nothing to cover is passed over.
SizeDebt ==
  /\ sizing.pc = "read"
  /\ LET debtToCover ==
           AddInterestBuffer(CapDebt(sizing.userDebt, sizing.debtBalanceInmToken))
     IN sizing' = IF debtToCover <= 0
                  THEN [sizing EXCEPT !.pc = "skipped"]
                  ELSE [sizing EXCEPT !.pc = "sized", !.debtToCover = debtToCover]
  /\ UNCHANGED <<pipeline, swap, failureLog, svc>>

\* The strategy selector answered: the amount is reduced to its liquidity cap.
AdjustForLiquidity ==
  /\ sizing.pc = "sized"
  /\ sizing' = [sizing EXCEPT
                  !.pc = "adjusted",
                  !.effectiveDebtToCover =
                     AdjustedDebtToCover(sizing.debtToCover, sizing.maxAmount)]
  /\ UNCHANGED <<pipeline, swap, failureLog, svc>>

\* lParam is built for the simulation and for the transaction that follows.
EmitLParam ==
  /\ sizing.pc = "adjusted"
  /\ sizing' = [sizing EXCEPT
                  !.pc = "emitted",
                  !.lParam = [amount |-> sizing.effectiveDebtToCover,
                              debtToCover |->
                                EncodedDebtToCover(sizing.userDebt,
                                                   sizing.debtBalanceInmToken)]]
  /\ UNCHANGED <<pipeline, swap, failureLog, svc>>

\* The percentages findOptimalLiquidationPercentage and batchPreparePositions
\* try.
LIQUIDATION_PERCENTAGES == {10, 25, 50}

\* findOptimalLiquidationPercentage: the buffered amount of one percentage.
AdaptiveDebtToCover(userDebt, percentage) ==
  AddInterestBuffer((userDebt * percentage) \div 100)

\* prepareLiquidationParams: "Cap to available debt in pool".
PreparedDebtToCover(userDebt, debtBalanceInmToken, percentage) ==
  LET debtToCover == AdaptiveDebtToCover(userDebt, percentage)
  IN IF userDebt > debtBalanceInmToken
     THEN (IF debtBalanceInmToken > debtToCover THEN debtToCover
           ELSE debtBalanceInmToken)
     ELSE debtToCover

\* batchPreparePositions: debtToLiquidate of the best percentage; the token's
\* balance in the pool is not read.
BatchDebtToCover(debtAmount, pct) == (debtAmount * pct) \div 100

\* prepareLiquidationParams sizes the entry it stores; percentage is the one
\* the profit estimates made best.
PrepareSize(percentage) ==
  /\ sizing.pc = "read"
  /\ sizing' = [sizing EXCEPT
                  !.pc = "prepared",
                  !.debtToCover = PreparedDebtToCover(sizing.userDebt,
                                     sizing.debtBalanceInmToken, percentage)]
  /\ UNCHANGED <<pipeline, swap, failureLog, svc>>

\* batchPreparePositions sizes the entry it stores.
BatchSize(pct) ==
  /\ sizing.pc = "read"
  /\ sizing' = [sizing EXCEPT
                  !.pc = "batched",
                  !.debtToCover = BatchDebtToCover(sizing.userDebt, pct)]
  /\ UNCHANGED <<pipeline, swap, failureLog, svc>>

(***************************************************************************)
(* Swap parameters of main's strategy attempts                             *)
(***************************************************************************)
FLASH_LOAN_PREMIUM_BPS == 5
\* const v3Fee = strategyResult.fee || 30
V3_DEFAULT_FEE_BPS == 30

\* calculateDynamicSlippage(debtValueUsd) in basis points: 2%, 3%, 5%, 7%, 10%
\* by position size.
DynamicSlippageBps == {200, 300, 500, 700, 1000}

\* SLIPPAGE_LEVELS = [dynamicSlippage, dynamicSlippage * 1.5,
\* dynamicSlippage * 2.5], as BigInt(Math.floor(slippage * 10000)).
SlippageLevels == 1..3

\* A faulty tier table that keeps the first tolerance at the second level;
\* C18 has to tell it from SlippageBps.
SlippageBpsFlat(dynamicSlippageBps, level) ==
  IF level = 3 THEN (dynamicSlippageBps * 25) \div 10 ELSE dynamicSlippageBps

SlippageBps(dynamicSlippageBps, level) ==
  CASE level = 1 -> dynamicSlippageBps
    [] level = 2 -> (dynamicSlippageBps * 15) \div 10
    [] level = 3 -> (dynamicSlippageBps * 25) \div 10

\* The strategies of main whose swap parameters index.js builds itself, by
\* their usedStrategy tags (Eisen: buildLiquidationParams).
SwapStrategies == {"STABLEKITTY_MORE", "STABLEKITTY_V3", "V2_DIRECT_FLASH", "EISEN"}

\* The fee of the flash source the attempt borrows from.
FlashFee(strategy, amount) ==
  IF strategy = "STABLEKITTY_V3"
  THEN (amount * V3_DEFAULT_FEE_BPS) \div 10000
  ELSE (amount * FLASH_LOAN_PREMIUM_BPS) \div 10000

\* totalNeeded = effectiveDebtToCover + flashLoanPremium.
TotalNeeded(amount) == amount + (amount * FLASH_LOAN_PREMIUM_BPS) \div 10000

\* amountOutMin of sParamToRepayLoan.  StableKitty: minOutput = totalNeeded
\* (the V3 fallback sends the same parameters); V2 direct:
\* totalNeeded.mul(10000n - slippageBps).div(10000n); Eisen: amountOutMin is
\* overridden with totalNeeded.
AmountOutMin(strategy, amount, slippageBps) ==
  IF strategy = "V2_DIRECT_FLASH"
  THEN (TotalNeeded(amount) * (10000 - slippageBps)) \div 10000
  ELSE TotalNeeded(amount)

\* effectiveDebtToCover values: one, one that the premium rounds to nothing,
\* and two for which every fee is positive.
SwapAmounts == {1, 1001, 20000, 100100}

\* main builds sParamToRepayLoan for one strategy at one slippage level (the
\* StableKitty attempts are made once, outside the slippage loop).
BuildSwap(strategy, level) ==
  /\ swap.pc = "start"
  /\ strategy \in {"STABLEKITTY_MORE", "STABLEKITTY_V3"} => level = 1
  /\ swap' = [swap EXCEPT
                !.pc = "built", !.strategy = strategy, !.level = level,
                !.amountOutMin =
                   AmountOutMin(strategy, swap.amount,
                                SlippageBps(swap.dynamicSlippageBps, level))]
  /\ UNCHANGED <<pipeline, sizing, failureLog, svc>>

(***************************************************************************)
(* The slippage loop of main's V2 direct strategy                          *)
(*   for (const slippage of SLIPPAGE_LEVELS) { try {...} catch {...} }     *)
(***************************************************************************)
\* Revert reasons of a simulation, as the catch tells them apart in its log.
RevertReasons == {"SwapFailed", "Other"}

\* The catch of the loop body: lastError = err, and the loop goes on to the
\* next level whatever the reason.
TierCatch(s, reason) ==
  IF s.level < 3
  THEN [s EXCEPT !.pc = "loop", !.level = s.level + 1, !.lastError = reason]
  ELSE [s EXCEPT !.pc = "exhausted", !.lastError = reason]

\* Head of the loop body up to the await of callStatic.execute: minOutput and
\* the swap parameters are built locally for this level.
TierBuild ==
  /\ swap.pc = "loop"
  /\ swap' = [swap EXCEPT
                !.pc = "simulating",
                !.amountOutMin =
                   AmountOutMin(swap.strategy, swap.amount,
                                SlippageBps(swap.dynamicSlippageBps, swap.level))]
  /\ UNCHANGED <<pipeline, sizing, failureLog, svc>>

\* callStatic.execute answered: it passed, and the transaction is sent with
\* the same parameters (getGasPrice, then execute), or it reverted.
TierSimOk ==
  /\ swap.pc = "simulating"
  /\ swap' = [swap EXCEPT !.pc = "waiting",
                          !.simResult[swap.level] = "ok",
                          !.sent = Append(@, swap.amountOutMin)]
  /\ UNCHANGED <<pipeline, sizing, failureLog, svc>>

TierSimRevert(reason) ==
  /\ swap.pc = "simulating"
  /\ swap' = TierCatch([swap EXCEPT !.simResult[swap.level] = reason], reason)
  /\ UNCHANGED <<pipeline, sizing, failureLog, svc>>

\* tx.wait() answered: a receipt with status 1 (break), or the transaction
\* reverted and the catch takes it.
TierReceipt(mined) ==
  /\ swap.pc = "waiting"
  /\ swap' = IF mined THEN [swap EXCEPT !.pc = "done"]
             ELSE TierCatch(swap, "Other")
  /\ UNCHANGED <<pipeline, sizing, failureLog, svc>>

\* The borrower of the slippage loop.
TierUser == 1

\* isSwapOrProfitError of the per-borrower catch, for the reasons drawn here
\* (realRewardUsd is still 0 on the V2 direct path).
IsSwapOrProfitError(reason) == reason = "SwapFailed"

\* No other strategy applies (no pool from the selector, no stable pool, no
\* Eisen key): `if (!txReceipt) throw lastError || new Error(...)`, and the
\* per-borrower catch records the failure only for a swap or profit error.
ThrowLastError ==
  /\ swap.pc = "exhausted"
  /\ swap' = [swap EXCEPT !.pc = "failed"]
  /\ failedPositions' =
       IF IsSwapOrProfitError(swap.lastError)
       THEN recordFailedLiquidation(failedPositions, TierUser, now)
       ELSE failedPositions
  /\ UNCHANGED <<now, ticks, hotPositions, preparedLiquidations, preparingUsers,
                 lastBlockNumber, wsConnection, lastFullScan, task, job, qcCount,
                 sizing, failureLog, svc>>

(***************************************************************************)
(* Adaptive sizing: findOptimalLiquidationPercentage and the selection     *)
(* loop of batchPreparePositions                                           *)
(***************************************************************************)
\* The ladder in the order the loops visit it.
Ladder == <<10, 25, 50>>

\* No estimate: estimateLiquidationProfit threw / the quote has no best.
NoEstimate == [ok |-> FALSE, usd |-> 0]

\* Profit estimates in tenths of a dollar: a loss, two gains (S6: -$2, +$1.5,
\* +$4), and none.
ProfitEstimates ==
  {NoEstimate} \cup {[ok |-> TRUE, usd |-> x] : x \in {-20, 15, 40}}

\* estimatedGas of estimateLiquidationProfit: one value per call, by strategy.
GasEstimates == {300000, 500000}

RECURSIVE SizerResults(_, _)
\* The loop of findOptimalLiquidationPercentage: a throwing estimate ends the
\* loop, an estimate that is not positive is pushed and ends the loop.
SizerResults(ladder, profitUsd) ==
  IF ladder = <<>> THEN <<>>
  ELSE LET percentage == Head(ladder)
       IN IF profitUsd[percentage] = NoEstimate THEN <<>>
          ELSE IF profitUsd[percentage].usd <= 0 THEN <<percentage>>
          ELSE <<percentage>> \o SizerResults(Tail(ladder), profitUsd)

\* results.filter(r => r.estimatedProfit > 0)
\*        .sort((a, b) => b.profitPerGas - a.profitPerGas)[0]
\* (null when nothing is profitable); the sort is stable, so of two equal
\* ratios the one pushed first stays first.
BestProfitPerGas(results, profitUsd, estimatedGas) ==
  LET profitable == SelectSeq(results, LAMBDA q : profitUsd[q].usd > 0)
      \* a.profitPerGas > b.profitPerGas, as a.profit * b.gas > b.profit * a.gas
      Beats(i, j) ==
        \/ profitUsd[profitable[i]].usd * estimatedGas
             > profitUsd[profitable[j]].usd * estimatedGas
        \/ /\ profitUsd[profitable[i]].usd * estimatedGas
                = profitUsd[profitable[j]].usd * estimatedGas
           /\ i <= j
  IN IF profitable = <<>> THEN 0
     ELSE profitable[CHOOSE i \in 1..Len(profitable) :
                       \A j \in 1..Len(profitable) : Beats(i, j)]

RECURSIVE BatchBestOption(_, _, _, _)
\* The selection loop of batchPreparePositions over the quotes of a
\* borrower: a missing quote is passed over, a strictly larger profit
\* replaces the best option; an option that is not profitable is dropped.
BatchBestOption(ladder, profitUsd, bestPct, bestProfitUsd) ==
  IF ladder = <<>>
  THEN IF bestPct = 0 \/ bestProfitUsd <= 0 THEN 0 ELSE bestPct
  ELSE LET pct == Head(ladder)
       IN IF profitUsd[pct] = NoEstimate
          THEN BatchBestOption(Tail(ladder), profitUsd, bestPct, bestProfitUsd)
          ELSE IF bestPct = 0 \/ profitUsd[pct].usd > bestProfitUsd
          THEN BatchBestOption(Tail(ladder), profitUsd, pct, profitUsd[pct].usd)
          ELSE BatchBestOption(Tail(ladder), profitUsd, bestPct, bestProfitUsd)

findOptimalLiquidationPercentage ==
  /\ svc.sizer.pc = "estimates"
  /\ svc' = [svc EXCEPT
               !.sizer.pc = "adaptive",
               !.sizer.best =
                  BestProfitPerGas(SizerResults(Ladder, svc.sizer.profitUsd),
                                   svc.sizer.profitUsd, svc.sizer.estimatedGas),
               \* prepareLiquidationParams: if (!adaptiveResult)
               \*   recordFailedLiquidation(user, 'No profitable percentage')
               !.sizer.recorded =
                  BestProfitPerGas(SizerResults(Ladder, svc.sizer.profitUsd),
                                   svc.sizer.profitUsd, svc.sizer.estimatedGas) = 0]
  /\ UNCHANGED <<pipeline, sizing, swap, failureLog>>

BatchSelect ==
  /\ svc.sizer.pc = "estimates"
  /\ svc' = [svc EXCEPT
               !.sizer.pc = "batch",
               !.sizer.best = BatchBestOption(Ladder, svc.sizer.profitUsd, 0, 0),
               \* the rejection of batchPreparePositions releases the sentinel
               \* and counts the borrower as failed; it records no failure
               !.sizer.recorded = FALSE]
  /\ UNCHANGED <<pipeline, sizing, swap, failureLog>>

(***************************************************************************)
(* retryWithBackoff(fn, maxRetries, baseDelayMs), as its callers invoke it *)
(* (3, 1000)                                                               *)
(***************************************************************************)
maxRetries == 3
baseDelayMs == 1000

\* What fn() can throw, by the message fragment or code the helper looks for,
\* and two errors it does not look for.
RetryableErrors == {"missing revert data", "timeout", "NETWORK_ERROR", "TIMEOUT"}

OtherErrors == {"INVALID_ARGUMENT", "insufficient funds"}

\* A faulty classification that retries everything; C22 has to tell it from
\* isRetryable.
isRetryableAlways(err) == TRUE

isRetryable(err) ==
  err \in {"missing revert data", "CALL_EXCEPTION", "timeout", "ETIMEDOUT",
           "processing response error", "NETWORK_ERROR", "TIMEOUT"}

\* A faulty backoff without doubling; C23 has to tell it from BackoffDelay.
BackoffDelayFlat(attempt) == baseDelayMs

\* const delay = baseDelayMs * Math.pow(2, attempt - 1)
BackoffDelay(attempt) == baseDelayMs * 2^(attempt - 1)

\* return await fn()
RetryReturn ==
  /\ svc.retry.pc = "calling"
  /\ svc' = [svc EXCEPT !.retry.pc = "returned"]
  /\ UNCHANGED <<pipeline, sizing, swap, failureLog>>

\* catch (err): rethrow, or sleep before the next attempt.
RetryCatch(err) ==
  /\ svc.retry.pc = "calling"
  /\ svc' = [svc EXCEPT
               !.retry.errors = Append(@, err),
               !.retry.pc =
                  IF ~isRetryable(err) \/ svc.retry.attempt = maxRetries
                  THEN "thrown" ELSE "sleeping",
               !.retry.delays =
                  IF ~isRetryable(err) \/ svc.retry.attempt = maxRetries
                  THEN @ ELSE Append(@, BackoffDelay(svc.retry.attempt))]
  /\ UNCHANGED <<pipeline, sizing, swap, failureLog>>

\* The sleep ended: attempt++, and fn is called again.
RetryWake ==
  /\ svc.retry.pc = "sleeping"
  /\ svc.retry.attempt + 1 <= maxRetries
  /\ svc' = [svc EXCEPT !.retry.pc = "calling",
                         !.retry.attempt = @ + 1,
                         !.retry.calls = @ + 1]
  /\ UNCHANGED <<pipeline, sizing, swap, failureLog>>

(***************************************************************************)
(* Dual RPC system: the read provider's failover in runLoop, and the       *)
(* endpoint of the liquidator wallet                                       *)
(***************************************************************************)
MaxIterations == 5      \* iterations of runLoop's while (true) in a behaviour

\* How an iteration of runLoop can end: without a throw, or in the catch with
\* an error the catch classes as a network error, as transient, or neither.
LoopErrors == {"network", "transient", "other"}

\* A faulty failover test that waits for a third error; C24 has to tell it
\* from FailsOver.
FailsOverLate(isNetworkError, consecutiveErrors, usingAlchemyFallback) ==
  isNetworkError /\ consecutiveErrors >= 3 /\ ~usingAlchemyFallback

\* if (isNetworkError && consecutiveErrors >= 2 && !usingAlchemyFallback)
FailsOver(isNetworkError, consecutiveErrors, usingAlchemyFallback) ==
  isNetworkError /\ consecutiveErrors >= 2 /\ ~usingAlchemyFallback

\* A faulty wallet bound to the read provider; C25 has to tell it from
\* WalletEndpoint.
WalletEndpointOfReads(provider) == provider

\* new Wallet(config.liquidator_key, txProvider): txProvider is a const built
\* from TX_RPC, whatever the read provider is.
WalletEndpoint(provider) == "TX_RPC"

MAX_SILENT_ERRORS == 3

\* A faulty alert rule that stays silent through the third error; C37 has to
\* tell it from BotErrorAlert.
BotErrorAlertLate(err, consecutiveErrors) ==
  IF consecutiveErrors > MAX_SILENT_ERRORS THEN "count"
  ELSE IF err = "other" THEN "error"
  ELSE "none"

\* The "Bot Error" alert of runLoop's catch: with the count from the third
\* consecutive error on, without it for an error that is neither transient
\* nor a network error.  The enclosing test (!isTransientError ||
\* consecutiveErrors >= MAX_SILENT_ERRORS || errorMsg !== lastErrorMsg) holds
\* whenever one of the two branches does, so lastErrorMsg decides nothing.
BotErrorAlert(err, consecutiveErrors) ==
  IF consecutiveErrors >= MAX_SILENT_ERRORS THEN "count"
  ELSE IF err = "other" THEN "error"
  ELSE "none"

\* An iteration of runLoop ended without a throw: the counter is reset and
\* the reads go back to the public endpoint.
LoopSucceeds ==
  /\ Len(svc.rpc.outcomes) < MaxIterations
  /\ svc' = [svc EXCEPT
               !.rpc.outcomes = Append(@, "success"),
               !.rpc.alerts = Append(@, "none"),
               !.rpc.consecutiveErrors = 0,
               !.rpc.provider =
                  IF svc.rpc.consecutiveErrors > 0 /\ svc.rpc.usingAlchemyFallback
                  THEN "PUBLIC_RPC" ELSE @,
               !.rpc.usingAlchemyFallback =
                  IF svc.rpc.consecutiveErrors > 0 THEN FALSE ELSE @]
  /\ UNCHANGED <<pipeline, sizing, swap, failureLog>>

\* An iteration of runLoop ended in its catch.
LoopFails(err) ==
  /\ Len(svc.rpc.outcomes) < MaxIterations
  /\ LET consecutiveErrors == svc.rpc.consecutiveErrors + 1
         switch == FailsOver(err = "network", consecutiveErrors,
                             svc.rpc.usingAlchemyFallback)
     IN svc' = [svc EXCEPT
                  !.rpc.outcomes = Append(@, err),
                  !.rpc.alerts = Append(@, BotErrorAlert(err, consecutiveErrors)),
                  !.rpc.consecutiveErrors = consecutiveErrors,
                  !.rpc.provider = IF switch THEN "TX_RPC" ELSE @,
                  !.rpc.usingAlchemyFallback = IF switch THEN TRUE ELSE @]
  /\ UNCHANGED <<pipeline, sizing, swap, failureLog>>

\* A liquidation transaction is sent (main, executePreparedLiquidation):
\* botContract.connect(liquidator).execute...(...)
SubmitTransaction ==
  /\ svc' = [svc EXCEPT
               !.rpc.sent = @ \cup {<<svc.rpc.provider,
                                      WalletEndpoint(svc.rpc.provider)>>}]
  /\ UNCHANGED <<pipeline, sizing, swap, failureLog>>

(***************************************************************************)
(* WebSocket block listener: reconnection and the fallback polling         *)
(***************************************************************************)
MAX_WS_RECONNECT_ATTEMPTS == 10
fallbackIntervalMs == 3000
wsIntervalMs == 10000
MaxReconnectDelayMs == 30000

\* A faulty delay without the cap; C26 has to tell it from ReconnectDelay.
ReconnectDelayUncapped(wsReconnectAttempts) == 1000 * 2^wsReconnectAttempts

\* Math.min(1000 * Math.pow(2, wsReconnectAttempts), 30000), computed after
\* wsReconnectAttempts++.
ReconnectDelay(wsReconnectAttempts) ==
  IF 1000 * 2^wsReconnectAttempts < MaxReconnectDelayMs
  THEN 1000 * 2^wsReconnectAttempts ELSE MaxReconnectDelayMs

\* wsConnection.on('open')
WsOnOpen ==
  /\ svc.ws.socket = "connecting"
  /\ svc' = [svc EXCEPT !.ws.socket = "open",
                        !.ws.wsReconnectAttempts = 0,
                        !.ws.delays = <<>>]
  /\ UNCHANGED <<pipeline, sizing, swap, failureLog>>

\* wsConnection.on('close'), of a socket that was open or never opened.
WsOnClose ==
  /\ svc.ws.socket \in {"connecting", "open"}
  /\ IF svc.ws.wsReconnectAttempts < MAX_WS_RECONNECT_ATTEMPTS
     THEN LET attempts == svc.ws.wsReconnectAttempts + 1
          IN svc' = [svc EXCEPT !.ws.socket = "none",
                                !.ws.wsReconnectAttempts = attempts,
                                !.ws.delays = Append(@, ReconnectDelay(attempts)),
                                !.ws.timer = TRUE]
     ELSE svc' = [svc EXCEPT !.ws.socket = "none"]
  /\ UNCHANGED <<pipeline, sizing, swap, failureLog>>

\* The timer set by the close handler fires: connectWebSocket().
connectWebSocket ==
  /\ svc.ws.timer
  /\ svc' = [svc EXCEPT !.ws.socket = "connecting", !.ws.timer = FALSE]
  /\ UNCHANGED <<pipeline, sizing, swap, failureLog>>

\* An iteration of runLoop in which no full scan is due: the hot positions
\* are polled only if wsConnection is null, and the loop then sleeps
\* wsConnection ? 10000 : fallbackIntervalMs.
LoopPoll(hot) ==
  /\ svc' = [svc EXCEPT
               !.ws.iterations = @ \cup
                  {[socket |-> svc.ws.socket, timer |-> svc.ws.timer,
                    hot |-> hot,
                    polled |-> svc.ws.socket = "none" /\ hot,
                    sleep |-> IF svc.ws.socket # "none" THEN wsIntervalMs
                              ELSE fallbackIntervalMs]}]
  /\ svc'.ws.iterations # svc.ws.iterations
  /\ UNCHANGED <<pipeline, sizing, swap, failureLog>>

(***************************************************************************)
(* Batched quoting: batchPreparePositions' chunks, batchGetSwapQuotes and  *)
(* batchQuotes                                                             *)
(***************************************************************************)
BATCH_CHUNK_SIZE == 50
MaxPositions == 120     \* positions handed to one batchPreparePositions call

\* Pool quotes that batchGetSwapQuotes builds for one pair: none when no pool
\* serves the pair, else one per venue found.
QuotesPerPair == {0, 1, 3}

\* A faulty batchQuotes that reads every quote with a call of its own; C27
\* has to tell it from batchQuotesCalls.
batchQuotesCallsUnbatched(allQuotes) == allQuotes

\* aggregate3 calls issued by batchGetSwapQuotes for allQuotes pool quotes:
\* none when no quote was built, else the one of batchQuotes.
batchQuotesCalls(allQuotes) == IF allQuotes = 0 THEN 0 ELSE 1

\* batchPreparePositions(positions), up to the chunking.
batchPreparePositions(n) ==
  /\ svc.quotes.pc = "idle"
  /\ svc' = [svc EXCEPT !.quotes.pc = IF n = 0 THEN "done" ELSE "chunk",
                        !.quotes.positions = n,
                        !.quotes.toProcess = n]
  /\ UNCHANGED <<pipeline, sizing, swap, failureLog>>

\* One chunk of at most BATCH_CHUNK_SIZE positions (all of them when there are
\* no more than that): withAssets of them have a collateral and a debt, each
\* gives one quote pair per percentage, and all the pairs go to one
\* batchGetSwapQuotes call.
PrepareChunk(withAssets, perPair) ==
  /\ svc.quotes.pc = "chunk"
  /\ LET chunk == IF svc.quotes.toProcess > BATCH_CHUNK_SIZE
                  THEN BATCH_CHUNK_SIZE ELSE svc.quotes.toProcess
         quotePairs == Len(Ladder) * withAssets
         allQuotes == quotePairs * perPair
     IN /\ withAssets <= chunk
        /\ svc' = [svc EXCEPT
                     !.quotes.toProcess = @ - chunk,
                     !.quotes.pc = IF svc.quotes.toProcess = chunk
                                   THEN "done" ELSE "chunk",
                     !.quotes.batches =
                        IF withAssets = 0 THEN @
                        ELSE Append(@, [pairs |-> quotePairs,
                                        allQuotes |-> allQuotes,
                                        calls |-> batchQuotesCalls(allQuotes)])]
  /\ UNCHANGED <<pipeline, sizing, swap, failureLog>>

(***************************************************************************)
(* Price caches: PricingService.getPrice, getCachedPrice, batchGetPrices   *)
(***************************************************************************)
CACHE_TTL_MS == 5000
cacheTtl == 10000
PriceStep == 5000       \* milliseconds between two readings of Date.now()
MaxPriceTime == 15000

\* The oracle's answer at time t; it differs at every instant, so a stale
\* price is never equal to a fresh one.
OraclePrice(t) == 100000 + t

\* A faulty freshness test that still accepts an entry exactly one TTL old;
\* C29 has to tell it from IsFresh.
IsFreshInclusive(cached, dateNow, ttl) ==
  cached.present /\ dateNow - cached.timestamp <= ttl

\* cached && (dateNow - cached.timestamp) < ttl
IsFresh(cached, dateNow, ttl) ==
  cached.present /\ dateNow - cached.timestamp < ttl

Returned(price) == [kind |-> "price", price |-> price]

Thrown == [kind |-> "throw", price |-> 0]

\* What one token's read looked like, for the record in last.
ReadOf(token, cached, oracleRead, oracleOk, result) ==
  [token |-> token, cached |-> cached, at |-> svc.price.now,
   age |-> svc.price.now - cached.timestamp,
   oracleRead |-> oracleRead, oracleOk |-> oracleRead /\ oracleOk,
   result |-> result]

\* Date.now() moves on.
PriceTick ==
  /\ svc.price.now < MaxPriceTime
  /\ svc' = [svc EXCEPT !.price.now = @ + PriceStep]
  /\ UNCHANGED <<pipeline, sizing, swap, failureLog>>

\* PricingService.getPrice(asset): on an oracle error it returns
\* cached?.price || BigNumber.from(0), and a BigNumber object is never falsy.
getPrice(asset, oracleOk) ==
  LET dateNow == svc.price.now
      cached == svc.price.pricing[asset]
      fresh == IsFresh(cached, dateNow, cacheTtl)
      result == IF fresh THEN Returned(cached.price)
                ELSE IF oracleOk THEN Returned(OraclePrice(dateNow))
                ELSE IF cached.present THEN Returned(cached.price)
                ELSE Returned(0)
  IN /\ svc' = [svc EXCEPT
                  !.price.pricing[asset] =
                     IF ~fresh /\ oracleOk
                     THEN [present |-> TRUE, price |-> OraclePrice(dateNow),
                           timestamp |-> dateNow]
                     ELSE @,
                  !.price.last =
                     [fn |-> "getPrice",
                      reads |-> {ReadOf(asset, cached, ~fresh, oracleOk, result)}]]
     /\ UNCHANGED <<pipeline, sizing, swap, failureLog>>

\* getCachedPrice(token) of src/index.js: an oracle error is thrown to the
\* caller.
getCachedPrice(token, oracleOk) ==
  LET dateNow == svc.price.now
      cached == svc.price.priceCache[token]
      fresh == IsFresh(cached, dateNow, CACHE_TTL_MS)
      result == IF fresh THEN Returned(cached.price)
                ELSE IF oracleOk THEN Returned(OraclePrice(dateNow))
                ELSE Thrown
  IN /\ svc' = [svc EXCEPT
                  !.price.priceCache[token] =
                     IF ~fresh /\ oracleOk
                     THEN [present |-> TRUE, price |-> OraclePrice(dateNow),
                           timestamp |-> dateNow]
                     ELSE @,
                  !.price.last =
                     [fn |-> "getCachedPrice",
                      reads |-> {ReadOf(token, cached, ~fresh, oracleOk, result)}]]
     /\ UNCHANGED <<pipeline, sizing, swap, failureLog>>

\* batchGetPrices(tokens): the fresh entries are served from the cache, the
\* others are read in one multicall; if the multicall fails they are read one
\* by one, and if that fails too the error is thrown to the caller.
BatchOutcomes == {"multicall", "individual", "fail"}

batchGetPrices(tokens, outcome) ==
  LET dateNow == svc.price.now
      uncachedTokens ==
        {t \in tokens : ~IsFresh(svc.price.priceCache[t], dateNow, CACHE_TTL_MS)}
      oracleOk == outcome # "fail"
  IN /\ uncachedTokens = {} => outcome = "multicall"
     /\ svc' = [svc EXCEPT
                  !.price.priceCache =
                     [t \in Tokens |->
                        IF t \in uncachedTokens /\ oracleOk
                        THEN [present |-> TRUE, price |-> OraclePrice(dateNow),
                              timestamp |-> dateNow]
                        ELSE @[t]],
                  !.price.last =
                     [fn |-> "batchGetPrices",
                      reads |->
                        {ReadOf(t, svc.price.priceCache[t],
                                t \in uncachedTokens, oracleOk,
                                IF uncachedTokens # {} /\ ~oracleOk THEN Thrown
                                ELSE IF t \in uncachedTokens
                                THEN Returned(OraclePrice(dateNow))
                                ELSE Returned(svc.price.priceCache[t].price)) :
                           t \in tokens}]]
     /\ UNCHANGED <<pipeline, sizing, swap, failureLog>>

(***************************************************************************)
(* Strategy manager: getAllStrategies and tryStrategiesInOrder             *)
(***************************************************************************)
\* The strategies in the order getAllStrategies constructs them, and the
\* priority each constructor passes to BaseStrategy.
StrategyInstances ==
  <<"STABLEKITTY_MORE", "STABLEKITTY_V3", "V2_FLASH_SWAP", "V3_FLASH",
    "V2_DIRECT_MORE", "V3_DIRECT", "EISEN_FLASH_LOAN">>

StrategyPriority ==
  [n \in {StrategyInstances[i] : i \in DOMAIN StrategyInstances} |->
     CASE n = "STABLEKITTY_MORE" -> 1
       [] n = "STABLEKITTY_V3" -> 2
       [] n = "V2_FLASH_SWAP" -> 3
       [] n = "V3_FLASH" -> 4
       [] n = "V2_DIRECT_MORE" -> 5
       [] n = "V3_DIRECT" -> 6
       [] n = "EISEN_FLASH_LOAN" -> 99]

\* list.sort((a, b) => priority[a] - priority[b]): a stable insertion sort,
\* an element going before those it compares negative with.
RECURSIVE SortStrategies(_, _)
SortStrategies(list, priority) ==
  IF list = <<>> THEN <<>>
  ELSE LET x == list[Len(list)]
           sorted == SortStrategies(SubSeq(list, 1, Len(list) - 1), priority)
           before == SelectSeq(sorted, LAMBDA y : ~(priority[x] - priority[y] < 0))
           after == SelectSeq(sorted, LAMBDA y : priority[x] - priority[y] < 0)
       IN before \o <<x>> \o after

\* A faulty getAllStrategies that sorts by descending priority number; C30
\* has to tell it from getAllStrategies.
getAllStrategiesDescending ==
  SortStrategies(StrategyInstances,
                 [n \in DOMAIN StrategyPriority |-> 0 - StrategyPriority[n]])

\* [...].sort((a, b) => a.priority - b.priority)
getAllStrategies == SortStrategies(StrategyInstances, StrategyPriority)

\* getAllStrategies().filter(s => s.canHandle(context))
getApplicableStrategies(canHandle) ==
  SelectSeq(getAllStrategies, LAMBDA n : n \in canHandle)

\* How the loop body of tryStrategiesInOrder can end for one strategy:
\* buildParams returns null, buildParams throws, executeStrategy reports a
\* failure (the simulation reverts or the transaction does), or it succeeds.
StrategyOutcomes == {"noParams", "threw", "failed", "success"}

\* StrategyManager.execute(context): canHandle is the set of strategies whose
\* canHandle(context) is true.
StrategyManagerExecute(canHandle) ==
  /\ svc.strategies.pc = "idle"
  /\ LET applicable == getApplicableStrategies(canHandle)
     IN svc' = [svc EXCEPT
                  !.strategies.strategies = applicable,
                  !.strategies.pc = IF applicable = <<>> THEN "done" ELSE "loop"]
  /\ UNCHANGED <<pipeline, sizing, swap, failureLog>>

\* One turn of the for loop of tryStrategiesInOrder.
tryStrategiesInOrder(outcome) ==
  /\ svc.strategies.pc = "loop"
  /\ LET strategy == svc.strategies.strategies[svc.strategies.next]
         last == svc.strategies.next = Len(svc.strategies.strategies)
     IN svc' = [svc EXCEPT
                  !.strategies.tried =
                     Append(@, [strategy |-> strategy, outcome |-> outcome]),
                  !.strategies.next = @ + 1,
                  !.strategies.usedStrategy =
                     IF outcome = "success" THEN strategy ELSE @,
                  !.strategies.pc =
                     IF outcome = "success" \/ last THEN "done" ELSE "loop"]
  /\ UNCHANGED <<pipeline, sizing, swap, failureLog>>

(***************************************************************************)
(* main: the for loop over unhealthyUsers and its sleep                    *)
(***************************************************************************)
MaxCohort == 3         \* borrowers in unhealthyUsers
AwaitStep == 2000      \* what the awaits of one step can take beyond nothing

AwaitDurations == {0, AwaitStep}

\* A loop body without the sleep; C38 has to tell it from SleepAfterAttempt.
SleepSkipped(late) == late

\* await sleep(5000): the timer fires after 5000 ms or later.
SleepAfterAttempt(late) == 5000 + late

\* `continue`, or the end of the loop body: the turn of Head(todo) is over.
NextBorrower(b, attempted, end) ==
  [b EXCEPT !.pc = IF Tail(b.todo) = <<>> THEN "done" ELSE "body",
            !.todo = Tail(b.todo),
            !.clock = end,
            !.start = end,
            !.turns = Append(@, [user |-> Head(b.todo), attempted |-> attempted,
                                 start |-> b.start, end |-> end])]

\* main reaches the for loop with n borrowers in unhealthyUsers.
MainLoopStart(n) ==
  /\ svc.backpressure.pc = "idle"
  /\ svc' = [svc EXCEPT !.backpressure.pc = "body",
                         !.backpressure.todo = [i \in 1..n |-> i]]
  /\ UNCHANGED <<pipeline, sizing, swap, failureLog>>

\* The body up to the try: a borrower without bot configuration, balances,
\* debt token or amount, a dust position or a blacklisted one is passed over
\* by `continue`.
MainLoopPassOver(d) ==
  /\ svc.backpressure.pc = "body"
  /\ svc' = [svc EXCEPT
               !.backpressure =
                  NextBorrower(@, FALSE, svc.backpressure.clock + d)]
  /\ UNCHANGED <<pipeline, sizing, swap, failureLog>>

\* The body enters the try and awaits getUserAccountData.
MainLoopTry(d) ==
  /\ svc.backpressure.pc = "body"
  /\ svc' = [svc EXCEPT !.backpressure.pc = "try",
                         !.backpressure.clock = @ + d]
  /\ UNCHANGED <<pipeline, sizing, swap, failureLog>>

\* if (freshHF.gt(constants.WeiPerEther)) { await sendInfo(...); continue; }
MainLoopRecovered(d) ==
  /\ svc.backpressure.pc = "try"
  /\ svc' = [svc EXCEPT
               !.backpressure =
                  NextBorrower(@, FALSE, svc.backpressure.clock + d)]
  /\ UNCHANGED <<pipeline, sizing, swap, failureLog>>

\* The simulations and the transaction, ended by the receipt or by the catch.
MainLoopAttempt(d) ==
  /\ svc.backpressure.pc = "try"
  /\ svc' = [svc EXCEPT !.backpressure.pc = "sleep",
                         !.backpressure.clock = @ + d]
  /\ UNCHANGED <<pipeline, sizing, swap, failureLog>>

\* await sleep(5000) at the end of the body; the turn ended when the try
\* statement did.
MainLoopSleep(late) ==
  /\ svc.backpressure.pc = "sleep"
  /\ LET b == svc.backpressure
         after == NextBorrower(b, TRUE, b.clock)
     IN svc' = [svc EXCEPT
                  !.backpressure =
                     [after EXCEPT !.clock = b.clock + SleepAfterAttempt(late),
                                   !.start = b.clock + SleepAfterAttempt(late)]]
  /\ UNCHANGED <<pipeline, sizing, swap, failureLog>>

(***************************************************************************)
(* Specifications                                                          *)
(*                                                                         *)
(* Spec is the whole pipeline.  The other specifications keep Init and     *)
(* leave actions or inputs out of Next, so each of their behaviours is a   *)
(* behaviour of Spec.                                                      *)
(***************************************************************************)
Next ==
  \/ \E d \in TickSteps : Tick(d)
  \/ WsClose
  \/ WsReconnect
  \/ \E n \in Blocks : HandleNewBlock(n)
  \/ LoopIterate
  \/ LoopReturn
  \/ \E t \in Tasks, data \in [Borrowers -> AccountData] : QuickCheckResult(t, data)
  \/ \E t \in Tasks : FastSend(t)
  \/ \E t \in Tasks : FastReceipt(t)
  \/ \E t \in Tasks, indexed \in SUBSET Borrowers :
       \E data \in [indexed -> AccountData] : MainScanResult(t, data)
  \/ \E t \in Tasks : MainGate(t)
  \/ \E t \in Tasks, freshHF \in FreshHealthFactors : MainFresh(t, freshHF)
  \/ \E t \in Tasks : MainRecovered(t)
  \/ \E t \in Tasks : MainSim(t)
  \/ \E t \in Tasks : MainReceipt(t)
  \/ \E t \in Tasks : MainPost(t)
  \/ \E u \in Borrowers : PrepareLiquidationParams(u)
  \/ \E j \in Jobs : JobBalances(j)
  \/ \E j \in Jobs : JobFinish(j)

Spec == Init /\ [][Next]_vars

\* Slow path: runLoop and the block handlers over one indexed borrower, with
\* no background preparation (so no prepared entry and no fast path).
NextSlow ==
  \/ Tick(BLACKLIST_TTL_MS)
  \/ \E n \in Blocks : HandleNewBlock(n)
  \/ LoopIterate
  \/ LoopReturn
  \/ \E t \in Tasks, data \in [{1} -> AccountData] : QuickCheckResult(t, data)
  \/ \E t \in Tasks, data \in [{1} -> AccountData] : MainScanResult(t, data)
  \/ \E t \in Tasks : MainGate(t)
  \/ \E t \in Tasks, freshHF \in FreshHealthFactors : MainFresh(t, freshHF)
  \/ \E t \in Tasks : MainRecovered(t)
  \/ \E t \in Tasks : MainSim(t)
  \/ \E t \in Tasks : MainReceipt(t)
  \/ \E t \in Tasks : MainPost(t)

SpecSlow == Init /\ [][NextSlow]_vars

\* Block trigger: the handlers of the delivered blocks and runLoop's first
\* scan over one indexed borrower; the clock stands still, so runLoop scans
\* once.
NextBlock ==
  \/ \E n \in Blocks : HandleNewBlock(n)
  \/ LoopIterate
  \/ LoopReturn
  \/ \E t \in Tasks, data \in [{1} -> AccountData] : QuickCheckResult(t, data)
  \/ \E t \in Tasks, data \in [{1} -> AccountData] : MainScanResult(t, data)
  \/ \E t \in Tasks : MainGate(t)
  \/ \E t \in Tasks, freshHF \in FreshHealthFactors : MainFresh(t, freshHF)
  \/ \E t \in Tasks : MainRecovered(t)
  \/ \E t \in Tasks : MainSim(t)
  \/ \E t \in Tasks : MainReceipt(t)
  \/ \E t \in Tasks : MainPost(t)

SpecBlock == Init /\ [][NextBlock]_vars

\* Account data of a borrower that is warm and above the preparation
\* threshold, of one below it, and of a liquidatable one.
Warm      == [hf |-> 107, debt |-> 2]
NearLiq   == [hf |-> 104, debt |-> 2]
Unhealthy == [hf |-> 95,  debt |-> 5]

\* Prepared fast path: the scans find both borrowers warm, their parameters
\* are prepared one by one, the quick check of a block handler finds each of
\* them warm or liquidatable, and the clock advances in steps of the prepared
\* TTL.
NextFast ==
  \/ Tick(PREPARED_TTL_MS)
  \/ HandleNewBlock(1)
  \/ LoopIterate
  \/ LoopReturn
  \/ \E t \in Tasks, data \in [Borrowers -> {Warm, Unhealthy}] : QuickCheckResult(t, data)
  \/ \E t \in Tasks : FastSend(t)
  \/ \E t \in Tasks : FastReceipt(t)
  \/ \E t \in Tasks : MainScanResult(t, [u \in Borrowers |-> Warm])
  \/ \E u \in Borrowers : PrepareLiquidationParams(u)
  \/ \E j \in Jobs : JobBalances(j)
  \/ \E j \in Jobs : JobFinish(j)

SpecFast == Init /\ [][NextFast]_vars

\* Retrieval of prepared entries: the fast path over one indexed borrower,
\* which the scans find warm and the quick checks find warm or liquidatable.
NextRetrieve ==
  \/ Tick(PREPARED_TTL_MS)
  \/ HandleNewBlock(1)
  \/ LoopIterate
  \/ LoopReturn
  \/ \E t \in Tasks, data \in [{1} -> {Warm, Unhealthy}] : QuickCheckResult(t, data)
  \/ \E t \in Tasks : FastSend(t)
  \/ \E t \in Tasks : FastReceipt(t)
  \/ \E t \in Tasks : MainScanResult(t, [u \in {1} |-> Warm])
  \/ PrepareLiquidationParams(1)
  \/ \E j \in Jobs : JobBalances(j)
  \/ \E j \in Jobs : JobFinish(j)

SpecRetrieve == Init /\ [][NextRetrieve]_vars

\* Block-trigger fast path over one indexed borrower, which the scans find
\* warm and the quick checks find below the preparation threshold or
\* liquidatable, so that the quick checks start the batch preparations; the
\* clock stands still, so every prepared entry is valid.
NextTrigger ==
  \/ \E n \in Blocks : HandleNewBlock(n)
  \/ LoopIterate
  \/ LoopReturn
  \/ \E t \in Tasks, data \in [{1} -> {NearLiq, Unhealthy}] : QuickCheckResult(t, data)
  \/ \E t \in Tasks : FastSend(t)
  \/ \E t \in Tasks : FastReceipt(t)
  \/ \E t \in Tasks : MainScanResult(t, [u \in {1} |-> Warm])
  \/ PrepareLiquidationParams(1)
  \/ \E j \in Jobs : JobBalances(j)
  \/ \E j \in Jobs : JobFinish(j)

SpecTrigger == Init /\ [][NextTrigger]_vars

\* Cohorts of the full scans: runLoop scans the two indexed borrowers once a
\* minute and attempts the liquidatable ones; each borrower is liquidatable,
\* at the boundary 1.00 with a smaller debt, warm, healthy, or reported
\* with a health factor of zero.
CohortData ==
  { [hf |-> 95,  debt |-> 5], [hf |-> 100, debt |-> 2], [hf |-> 107, debt |-> 2],
    [hf |-> 120, debt |-> 5], [hf |-> 0,   debt |-> 5] }

NextCohorts ==
  \/ Tick(LOOP_INTERVAL_MS)
  \/ LoopIterate
  \/ LoopReturn
  \/ \E t \in Tasks, data \in [Borrowers -> CohortData] : MainScanResult(t, data)
  \/ \E t \in Tasks : MainGate(t)
  \/ \E t \in Tasks, freshHF \in FreshHealthFactors : MainFresh(t, freshHF)
  \/ \E t \in Tasks : MainRecovered(t)
  \/ \E t \in Tasks : MainSim(t)
  \/ \E t \in Tasks : MainReceipt(t)
  \/ \E t \in Tasks : MainPost(t)

SpecCohorts == Init /\ [][NextCohorts]_vars

\* Executions with prepared entries about: one indexed borrower, which the
\* scans find warm or liquidatable and the quick checks find below the
\* preparation threshold or liquidatable, with the fast path, the slow path
\* and the background preparations; the clock stands still.
NextInvalidate ==
  \/ \E n \in Blocks : HandleNewBlock(n)
  \/ LoopIterate
  \/ LoopReturn
  \/ \E t \in Tasks, data \in [{1} -> {NearLiq, Unhealthy}] : QuickCheckResult(t, data)
  \/ \E t \in Tasks : FastSend(t)
  \/ \E t \in Tasks : FastReceipt(t)
  \/ \E t \in Tasks, data \in [{1} -> {Warm, Unhealthy}] : MainScanResult(t, data)
  \/ \E t \in Tasks : MainGate(t)
  \/ \E t \in Tasks, freshHF \in FreshHealthFactors : MainFresh(t, freshHF)
  \/ \E t \in Tasks : MainRecovered(t)
  \/ \E t \in Tasks : MainSim(t)
  \/ \E t \in Tasks : MainReceipt(t)
  \/ \E t \in Tasks : MainPost(t)
  \/ PrepareLiquidationParams(1)
  \/ \E j \in Jobs : JobBalances(j)
  \/ \E j \in Jobs : JobFinish(j)

SpecInvalidate == Init /\ [][NextInvalidate]_vars

\* The same steps with the preparations scheduled fairly: a suspended
\* preparation is resumed by the event loop when the call it awaits answers
\* or times out, so no job waits forever.
SpecSentinel ==
  /\ Init
  /\ [][NextInvalidate]_vars
  /\ WF_vars(\E j \in Jobs : JobBalances(j))
  /\ WF_vars(\E j \in Jobs : JobFinish(j))

\* Enqueueing by the quick check: the scans find both borrowers warm, the
\* quick checks find each of them below the preparation threshold or
\* liquidatable; the clock stands still.
EnqueueData == [Borrowers -> {NearLiq, Unhealthy}]

NextEnqueue ==
  \/ \E n \in Blocks : HandleNewBlock(n)
  \/ LoopIterate
  \/ LoopReturn
  \/ \E t \in Tasks, data \in EnqueueData : QuickCheckResult(t, data)
  \/ \E t \in Tasks : FastSend(t)
  \/ \E t \in Tasks : FastReceipt(t)
  \/ \E t \in Tasks : MainScanResult(t, [u \in Borrowers |-> Warm])
  \/ \E u \in Borrowers : PrepareLiquidationParams(u)
  \/ \E j \in Jobs : JobBalances(j)
  \/ \E j \in Jobs : JobFinish(j)

SpecEnqueue == Init /\ [][NextEnqueue]_vars

\* Background preparation: the scans find both borrowers warm, the quick
\* checks of the block handlers and of the polling fallback find each of them
\* above or below the preparation threshold and start batches; the clock
\* stands still.
NextPrep ==
  \/ WsClose
  \/ \E n \in Blocks : HandleNewBlock(n)
  \/ LoopIterate
  \/ LoopReturn
  \/ \E t \in Tasks, data \in [Borrowers -> {Warm, NearLiq}] : QuickCheckResult(t, data)
  \/ \E t \in Tasks : MainScanResult(t, [u \in Borrowers |-> Warm])
  \/ \E j \in Jobs : JobBalances(j)
  \/ \E j \in Jobs : JobFinish(j)

SpecPrep == Init /\ [][NextPrep]_vars

\* Sizing: the balance reads return any of the values above, and main sizes
\* the liquidation and encodes lParam.
InitAmount ==
  /\ InitPipeline
  /\ swap = IdleSwap
  /\ failureLog = NoFailures
  /\ svc = IdleSvc
  /\ \E d \in UserDebtValues, b \in DebtBalanceValues, m \in MaxAmountValues :
       sizing = [IdleSizing EXCEPT !.pc = "read", !.userDebt = d,
                                   !.debtBalanceInmToken = b, !.maxAmount = m]

NextAmount ==
  \/ SizeDebt
  \/ AdjustForLiquidity
  \/ EmitLParam
  \/ \E percentage \in LIQUIDATION_PERCENTAGES : PrepareSize(percentage)
  \/ \E pct \in LIQUIDATION_PERCENTAGES : BatchSize(pct)

SpecAmount == InitAmount /\ [][NextAmount]_vars

\* Blacklist: failures of one borrower are recorded and shouldSkipPosition is
\* asked while the clock advances by the loop interval, by four fifths of
\* the TTL or by the TTL.
FailureSpacing == (BLACKLIST_TTL_MS * 4) \div 5

NextBlacklist ==
  \/ Tick(LOOP_INTERVAL_MS)
  \/ Tick(FailureSpacing)
  \/ Tick(BLACKLIST_TTL_MS)
  \/ RecordFailure(1)
  \/ CheckSkip(1)

SpecBlacklist == Init /\ [][NextBlacklist]_vars

\* Swap parameters: main has an amount to cover and a dynamic slippage and
\* builds the repay swap of a strategy attempt.
InitSwap ==
  /\ InitPipeline
  /\ sizing = IdleSizing
  /\ failureLog = NoFailures
  /\ svc = IdleSvc
  /\ \E a \in SwapAmounts, d \in DynamicSlippageBps :
       swap = [IdleSwap EXCEPT !.pc = "start", !.amount = a,
                               !.dynamicSlippageBps = d]

NextSwap == \E strategy \in SwapStrategies, level \in SlippageLevels :
              BuildSwap(strategy, level)

SpecSwap == InitSwap /\ [][NextSwap]_vars

\* The slippage loop of the V2 direct strategy for one collateral, from every
\* amount and base tolerance.
InitTiers ==
  /\ InitPipeline
  /\ sizing = IdleSizing
  /\ failureLog = NoFailures
  /\ svc = IdleSvc
  /\ \E a \in SwapAmounts, d \in DynamicSlippageBps :
       swap = [IdleSwap EXCEPT !.pc = "loop", !.amount = a,
                               !.dynamicSlippageBps = d,
                               !.strategy = "V2_DIRECT_FLASH", !.level = 1]

NextTiers ==
  \/ TierBuild
  \/ TierSimOk
  \/ \E reason \in RevertReasons : TierSimRevert(reason)
  \/ \E mined \in BOOLEAN : TierReceipt(mined)
  \/ ThrowLastError

SpecTiers == InitTiers /\ [][NextTiers]_vars

\* The state of a component specification: the pipeline at rest and the
\* components as given.
InitSvc(components) ==
  /\ InitPipeline
  /\ sizing = IdleSizing
  /\ swap = IdleSwap
  /\ failureLog = NoFailures
  /\ svc = components

\* Adaptive sizing from every combination of profit estimates.
InitSizer ==
  \E profitUsd \in [LIQUIDATION_PERCENTAGES -> ProfitEstimates],
     estimatedGas \in GasEstimates :
    InitSvc([IdleSvc EXCEPT !.sizer = [IdleSizer EXCEPT !.pc = "estimates",
                                                       !.profitUsd = profitUsd,
                                                       !.estimatedGas = estimatedGas]])

NextSizer == findOptimalLiquidationPercentage \/ BatchSelect

SpecSizer == InitSizer /\ [][NextSizer]_vars

\* One retried RPC call, from its first invocation of fn.
InitRetry ==
  InitSvc([IdleSvc EXCEPT !.retry = [IdleRetry EXCEPT !.pc = "calling",
                                                      !.attempt = 1,
                                                      !.calls = 1]])

NextRetry ==
  \/ RetryReturn
  \/ \E err \in RetryableErrors \cup OtherErrors : RetryCatch(err)
  \/ RetryWake

SpecRetry == InitRetry /\ [][NextRetry]_vars

\* runLoop's iterations ending in every way, with transactions sent in
\* between.
NextRpc ==
  \/ LoopSucceeds
  \/ \E err \in LoopErrors : LoopFails(err)
  \/ SubmitTransaction

SpecRpc == Init /\ [][NextRpc]_vars

\* One pass of main's for loop over one to MaxCohort borrowers.
NextBackpressure ==
  \/ \E n \in 1..MaxCohort : MainLoopStart(n)
  \/ \E d \in AwaitDurations : MainLoopPassOver(d)
  \/ \E d \in AwaitDurations : MainLoopTry(d)
  \/ \E d \in AwaitDurations : MainLoopRecovered(d)
  \/ \E d \in AwaitDurations : MainLoopAttempt(d)
  \/ \E late \in AwaitDurations : MainLoopSleep(late)

SpecBackpressure == Init /\ [][NextBackpressure]_vars

\* The listener's events and runLoop's polling iterations.
NextWs ==
  \/ WsOnOpen
  \/ WsOnClose
  \/ connectWebSocket
  \/ \E hot \in BOOLEAN : LoopPoll(hot)

SpecWs == Init /\ [][NextWs]_vars

\* One batchPreparePositions call over any number of positions.
NextQuotes ==
  \/ \E n \in 0..MaxPositions : batchPreparePositions(n)
  \/ \E withAssets \in {0, 1, 20, BATCH_CHUNK_SIZE}, perPair \in QuotesPerPair :
        PrepareChunk(withAssets, perPair)

SpecQuotes == Init /\ [][NextQuotes]_vars

\* Price reads of every kind at any time, with the oracle answering or not.
NextPrice ==
  \/ PriceTick
  \/ \E asset \in Tokens, oracleOk \in BOOLEAN : getPrice(asset, oracleOk)
  \/ \E token \in Tokens, oracleOk \in BOOLEAN : getCachedPrice(token, oracleOk)
  \/ \E tokens \in (SUBSET Tokens) \ {{}}, outcome \in BatchOutcomes :
        batchGetPrices(tokens, outcome)

SpecPrice == Init /\ [][NextPrice]_vars

\* One StrategyManager.execute call for any context.
NextStrategies ==
  \/ \E canHandle \in SUBSET {StrategyInstances[i] : i \in DOMAIN StrategyInstances} :
        StrategyManagerExecute(canHandle)
  \/ \E outcome \in StrategyOutcomes : tryStrategiesInOrder(outcome)

SpecStrategies == Init /\ [][NextStrategies]_vars

(***************************************************************************)
(* Properties                                                              *)
(***************************************************************************)
\* The borrower a task is executing a liquidation for.
Target(r) == IF r.pc \in {"fast", "fastwait"} THEN Head(r.liq).user ELSE Head(r.todo)

\* Task t has an execution for user in flight: between the start of a
\* simulation and the receipt (slow path), or between the send and the
\* receipt (fast path).
Executing(t, user) ==
  /\ task[t].pc \in {"sim", "wait", "fastwait"}
  /\ Target(task[t]) = user

\* In this step task t starts a simulation or sends a transaction.
BeginsSimOrSubmit(t) ==
  /\ task'[t].pc \in {"sim", "wait", "fastwait"}
  /\ task'[t].pc # task[t].pc

\* C1: for every borrower, at most one liquidation execution (simulation to
\* receipt) is in flight at any time, over runLoop, the block handlers and
\* the polling fallback.
C1_SingleInflight ==
  \A u \in Borrowers : Cardinality({t \in Tasks : Executing(t, u)}) <= 1

\* C2: no task starts a simulation or sends a transaction for a borrower that
\* is blacklisted (failures >= 3, last attempt within the last 5 minutes) at
\* that moment.
C2_BlacklistedNeverExecuted ==
  [][\A t \in Tasks :
       BeginsSimOrSubmit(t) =>
         ~shouldSkipPosition(failedPositions, Target(task'[t]), now)]_vars

\* C3: when an execution that got its receipt ends (main's slow path after
\* the receipt, the fast path on success), the borrower has no blacklist
\* entry.
C3_SuccessClearsBlacklist ==
  [][\A t \in Tasks :
       /\ (task[t].pc = "post" /\ task'[t].pc # "post")
            => ~MapHas(failedPositions', Head(task[t].todo))
       /\ (task[t].pc = "fastwait" /\ task'[t].handledFast > task[t].handledFast)
            => ~MapHas(failedPositions', Head(task[t].liq).user)]_vars

\* C4: a transaction is awaiting its receipt only if a static-call simulation
\* of it passed in the same attempt, on the slow path and on the fast path.
C4_SubmittedOnlyAfterSimulated ==
  \A t \in Tasks : task[t].pc \in {"wait", "fastwait"} => task[t].simd

\* C5: every prepared entry that a quick check attaches to a liquidatable
\* borrower is at most 30 s old when it is retrieved.
C5_RetrievedWithinTtl ==
  [][\A t \in Tasks :
       (task[t].pc = "qc" /\ task'[t].pc = "fast") =>
         \A i \in 1..Len(task'[t].liq) :
           task'[t].liq[i].prepared.has =>
             now - task'[t].liq[i].prepared.timestamp <= PREPARED_TTL_MS]_vars

\* A quick check has attached an entry that is exactly 30 s old.
C5_Witness ==
  \E t \in Tasks :
    /\ task[t].pc = "fast"
    /\ task[t].handledFast = 0
    /\ Head(task[t].liq).prepared.has
    /\ now - Head(task[t].liq).prepared.timestamp = PREPARED_TTL_MS

\* C6: a prepared entry is at most 30 s old at the moment
\* executePreparedLiquidation sends its transaction.
C6_SentWhileValid ==
  \A t \in Tasks : task[t].pc = "fastwait" => task[t].sentAge <= PREPARED_TTL_MS

\* C7: the quick check is invoked at most once per block number, and a block
\* whose number is not greater than the last processed one starts no quick
\* check.
C7_QuickCheckOncePerBlock ==
  /\ [](\A n \in Blocks : qcCount[n] <= 1)
  /\ [][\A n \in Blocks :
          qcCount'[n] # qcCount[n] => (n > lastBlockNumber /\ lastBlockNumber' = n)]_vars

\* Both blocks were delivered and each had its one quick check.
C7_Witness ==
  /\ lastBlockNumber = MaxBlock
  /\ \A n \in Blocks : qcCount[n] = 1

\* C8: block handling is serialized: at most one handleNewBlock activation
\* is between its start and the end of its side effects.
C8_HandlersSerialized ==
  Cardinality({h \in Handlers : task[h].pc # "idle"}) <= 1

\* Job j is preparing parameters for user: a batch drops the users it
\* released after the balance read.
InPreparation(j, user) ==
  /\ job[j].pc # "idle"
  /\ user \in (IF job[j].pc = "balances" THEN job[j].toProcess ELSE job[j].assets)

\* C9: for every borrower, at most one preparation is in progress at a time.
C9_OnePreparationPerBorrower ==
  \A u \in Borrowers : Cardinality({j \in Jobs : InPreparation(j, u)}) <= 1

\* The bound of the claim for a user's debt: the largest integer that is at
\* most floor(userDebt * 50 / 100) * (1 + 10 / 10000).
CloseFactorBound(userDebt) ==
  (((userDebt * 50) \div 100) * (10000 + 10)) \div 10000

\* C10: the debtToCover encoded in every emitted liquidation transaction is
\* at most floor(userDebt * 50 / 100) * (1 + 10 / 10000).
C10_EncodedDebtToCoverBounded ==
  sizing.pc = "emitted" =>
    sizing.lParam.debtToCover <= CloseFactorBound(sizing.userDebt)

\* The amount a builder constructed: main's debtToCover (before and after the
\* liquidity cap), or the debtToCover of a prepared entry.
ConstructedAmount ==
  IF sizing.pc = "adjusted" THEN sizing.effectiveDebtToCover
  ELSE IF sizing.pc = "emitted" THEN sizing.lParam.amount
  ELSE sizing.debtToCover

\* C11: every amount built by main, prepareLiquidationParams or
\* batchPreparePositions is at most half of the user's debt and at most the
\* debt asset's available reserve in the pool.
C11_AmountWithinCloseFactorAndReserve ==
  sizing.pc \in {"sized", "adjusted", "emitted", "prepared", "batched"} =>
    /\ 2 * ConstructedAmount <= sizing.userDebt
    /\ ConstructedAmount <= sizing.debtBalanceInmToken

\* C12: the repay swap's amountOutMin of every built transaction is at least
\* the amount to cover plus the flash fee of the strategy used, at every
\* slippage level.
C12_AmountOutMinCoversDebtAndFee ==
  swap.pc = "built" =>
    swap.amountOutMin >= swap.amount + FlashFee(swap.strategy, swap.amount)

\* The failure count of a borrower's blacklist entry (0 without an entry).
Failures(fp, user) == IF MapHas(fp, user) THEN fp[user].failures ELSE 0

\* In this step task t's execution attempt for its borrower ends in failure:
\* the slow path leaves the simulations without a transaction in flight
\* (every strategy and slippage level exhausted), or the fast path's send or
\* transaction fails.
AttemptFails(t) ==
  /\ task'[t] # task[t]
  /\ \/ task[t].pc = "sim" /\ task'[t].pc \notin {"sim", "wait"}
     \/ task[t].pc = "fast" /\ task'[t].pc # "fastwait"
     \/ task[t].pc = "fastwait" /\ task'[t].handledFast = task[t].handledFast

\* C13: every failed execution attempt for a borrower increments that
\* borrower's blacklist entry (or inserts it with one failure), on the slow
\* path and on the prepared fast path.
C13_FailedAttemptRecorded ==
  [][\A t \in Tasks :
       AttemptFails(t) =>
         Failures(failedPositions', Target(task[t])) =
           Failures(failedPositions, Target(task[t])) + 1]_vars

\* The borrower has an entry with at least 3 failures whose last attempt is
\* at most 5 minutes old.
CountedBlacklisted(user) ==
  /\ MapHas(failedPositions, user)
  /\ failedPositions[user].failures >= 3
  /\ now - failedPositions[user].lastAttempt <= 300000

\* C14 (as amended): shouldSkipPosition returns true iff the borrower's entry
\* counts at least 3 failures and the last of them is at most 5 minutes old;
\* the entry counts the failures recorded since it was created, and the
\* last attempt is the time of the last of them.  Once 5 minutes have
\* passed since the last failure the borrower is eligible and the check
\* deletes the entry.
C14_BlacklistedIffCountedAndRecent ==
  \A u \in Borrowers :
    /\ shouldSkipPosition(failedPositions, u, now) <=> CountedBlacklisted(u)
    /\ MapHas(failedPositions, u) =>
         /\ failedPositions[u].failures = Len(failureLog[u])
         /\ failedPositions[u].lastAttempt = failureLog[u][Len(failureLog[u])]
    /\ (MapHas(failedPositions, u) /\ now - failedPositions[u].lastAttempt > 300000)
         => /\ ~shouldSkipPosition(failedPositions, u, now)
            /\ ~MapHas(shouldSkipPositionEffect(failedPositions, u, now), u)

\* A borrower is blacklisted exactly 5 minutes after its last failure.
C14_Witness ==
  /\ shouldSkipPosition(failedPositions, 1, now)
  /\ now - failedPositions[1].lastAttempt = 300000

\* The failures of user recorded within the last 5 minutes.
RecentFailures(user) ==
  {i \in 1..Len(failureLog[user]) : now - failureLog[user][i] <= 300000}

\* C14 (as stated): shouldSkipPosition returns true iff at least 3 failures
\* of the borrower were recorded within the last 5 minutes.
C14_BlacklistedIffThreeRecentFailures ==
  \A u \in Borrowers :
    shouldSkipPosition(failedPositions, u, now) <=>
      Cardinality(RecentFailures(u)) >= 3

(***************************************************************************)
(* C15: every position in the hot tracker was inserted with                *)
(* 1 <= HF < 1.10 (HotSetAll is only given WideUnhealthyUsers, filtered by *)
(* IsWarm), and at all times now - lastUpdate <= 5 minutes.  The formula   *)
(* is the age half, which is the one the tracker's state can break.        *)
(***************************************************************************)
C15_HotEntriesFresh ==
  \A i \in 1..Len(hotPositions) : now - hotPositions[i].lastUpdate <= 300000

(***************************************************************************)
(* C16: a borrower is in the hot tracker iff its last scan showed          *)
(* 1 <= HF < 1.10 and a debt of at least MIN_DEBT_USD; a tracked borrower  *)
(* whose last scan no longer satisfies this is not in the tracker.  A scan *)
(* stamps the entries of the borrowers it shows in the band with the       *)
(* current time, so the claim's second sentence says: when main leaves a   *)
(* completed scan, every entry of the tracker carries that stamp.          *)
(***************************************************************************)
C16_TrackedIffLastScanWarm ==
  [][\A t \in Tasks :
       (task[t].pc = "scan" /\ task'[t].pc \in {"gate", "ret"})
         => \A i \in 1..Len(hotPositions') :
              hotPositions'[i].lastUpdate = now']_vars

(***************************************************************************)
(* C17: if the fresh read at the start of an execution shows HF above 1    *)
(* (here 1.02), the candidate is aborted: main goes on to the next         *)
(* borrower (or returns) without a simulation or a transaction for it, and *)
(* the blacklist is left as it was.  No candidate is in simulation, in     *)
(* flight or in post-processing with a fresh HF above 1.                   *)
(***************************************************************************)
C17_RecoveredCandidateAborted ==
  [][\A t \in Tasks :
       /\ task'[t].pc \in {"sim", "wait", "post"} => task'[t].freshHF <= 100
       /\ (task[t].pc = "recovered" /\ task'[t] # task[t])
            => /\ task[t].freshHF > 100
               /\ task'[t] = MainNext(t, task[t])
               /\ ~task'[t].simd
               /\ failedPositions' = failedPositions]_vars

\* A candidate with an earlier recorded failure is read back at HF 1.02.
C17_Witness ==
  \E t \in Tasks :
    /\ task[t].pc = "recovered"
    /\ task[t].freshHF = 102
    /\ MapHas(failedPositions, Head(task[t].todo))

(***************************************************************************)
(* C18: when the simulation at the first slippage tier reverts with        *)
(* SwapFailed and the simulation at the second tier succeeds, exactly one  *)
(* transaction is submitted, and it carries the second tier's minOut       *)
(* (total needed less 1.5 times the base tolerance).  Stated for the       *)
(* attempts whose second-tier transaction is mined.                        *)
(***************************************************************************)
FirstTierSwapFailedSecondOk ==
  swap.simResult[1] = "SwapFailed" /\ swap.simResult[2] = "ok"

SecondTierMinOut ==
  (TotalNeeded(swap.amount) * (10000 - (swap.dynamicSlippageBps * 15) \div 10))
    \div 10000

C19_AllStrategiesFailRecordedOnce ==
  (swap.pc = "failed" /\ \A l \in SlippageLevels : swap.simResult[l] \in RevertReasons)
    => /\ Failures(failedPositions, TierUser) = 1
       /\ swap.sent = <<>>

(***************************************************************************)
(* C20: when a block header arrives and a tracked borrower with a valid    *)
(* prepared liquidation is observed with HF <= 1, the executor submits a   *)
(* transaction built from the prepared parameters, without re-quoting, in  *)
(* that handler activation.  For that the entry handed to the executor has *)
(* to carry the strategy and swap parameters of the call: whenever a block *)
(* handler is in executePreparedLiquidation for a borrower, the prepared   *)
(* entry it was given has them.                                            *)
(***************************************************************************)
C20_PreparedEntrySubmittable ==
  \A t \in Tasks \ {LoopTask} :
    task[t].pc = "fast" => Head(task[t].liq).prepared.sParam

(***************************************************************************)
(* C21: the adaptive sizer returns, among the ladder percentages with a    *)
(* positive profit estimate, the one with the largest profit per gas unit  *)
(* (and with the estimates 50% -> -$2, 25% -> +$4, 10% -> +$1.5 it returns *)
(* 25%).  Stated for the calls in which every percentage has an estimate.  *)
(***************************************************************************)
ProfitablePercentages ==
  {q \in LIQUIDATION_PERCENTAGES :
     svc.sizer.profitUsd[q].ok /\ svc.sizer.profitUsd[q].usd > 0}

C21_ScenarioS6 ==
  (/\ svc.sizer.pc \in {"adaptive", "batch"}
   /\ svc.sizer.profitUsd[10] = [ok |-> TRUE, usd |-> 15]
   /\ svc.sizer.profitUsd[25] = [ok |-> TRUE, usd |-> 40]
   /\ svc.sizer.profitUsd[50] = [ok |-> TRUE, usd |-> -20])
    => svc.sizer.best = 25

C23_DelaysDoubleFromOneSecond ==
  \/ svc.retry.delays = <<>>
  \/ svc.retry.delays = <<1000>>
  \/ svc.retry.delays = <<1000, 2000>>

\* Both delays have been slept and the third attempt is under way.
C23_Witness ==
  svc.retry.delays = <<1000, 2000>> /\ svc.retry.calls = 3

\* C23 as stated: a call that fails at every attempt has slept 1, 2 and 4 s.
C23_DelaysOneTwoFour ==
  (svc.retry.pc = "thrown" /\ svc.retry.calls = 3)
    => svc.retry.delays = <<1000, 2000, 4000>>

(***************************************************************************)
(* C24: after at least 2 consecutive network errors the reads use the      *)
(* transaction endpoint, and after the first success that follows they use *)
(* the public endpoint again (after any successful iteration the reads are *)
(* on the public endpoint).                                                *)
(***************************************************************************)
LastOutcomes(n) ==
  SubSeq(svc.rpc.outcomes, Len(svc.rpc.outcomes) - n + 1, Len(svc.rpc.outcomes))

C24_FailoverAndRecovery ==
  /\ (Len(svc.rpc.outcomes) >= 2 /\ LastOutcomes(2) = <<"network", "network">>)
       => svc.rpc.provider = "TX_RPC"
  /\ (Len(svc.rpc.outcomes) >= 1 /\ LastOutcomes(1) = <<"success">>)
       => svc.rpc.provider = "PUBLIC_RPC"

\* Two network errors in a row, then a success: the reads are back on the
\* public endpoint.
C24_Witness ==
  /\ Len(svc.rpc.outcomes) >= 3
  /\ LastOutcomes(3) = <<"network", "network", "success">>
  /\ svc.rpc.provider = "PUBLIC_RPC"

(***************************************************************************)
(* C25: every transaction is submitted through the transaction endpoint,   *)
(* whichever endpoint the reads use at that moment.                        *)
(***************************************************************************)
C25_SubmissionsViaTxEndpoint ==
  \A t \in svc.rpc.sent : t[2] = "TX_RPC"

\* Transactions were sent both with the reads on the public endpoint and
\* with the reads failed over.
C25_Witness ==
  {t[1] : t \in svc.rpc.sent} = {"PUBLIC_RPC", "TX_RPC"}

(***************************************************************************)
(* C26: after a disconnect the listener reconnects after a delay that      *)
(* doubles from 2 s (2, 4, 8, 16 s) up to the 30 s cap; after 10 reconnect *)
(* attempts without an 'open' it sets no further timer, and the hot        *)
(* positions are then polled by runLoop every fallbackIntervalMs.          *)
(***************************************************************************)
WsGaveUp ==
  svc.ws.socket = "none" /\ ~svc.ws.timer

C26_ReconnectBackoffFromTwoSeconds ==
  /\ Len(svc.ws.delays) = svc.ws.wsReconnectAttempts
  /\ Len(svc.ws.delays) <= MAX_WS_RECONNECT_ATTEMPTS
  /\ \A i \in 1..Len(svc.ws.delays) :
        /\ svc.ws.delays[i] = IF i <= 4 THEN 1000 * 2^i ELSE 30000
        /\ i > 1 /\ i <= 4 => svc.ws.delays[i] = 2 * svc.ws.delays[i - 1]
  /\ WsGaveUp => svc.ws.wsReconnectAttempts = MAX_WS_RECONNECT_ATTEMPTS
  /\ \A it \in svc.ws.iterations :
        /\ it.polled => it.socket = "none" /\ it.sleep = fallbackIntervalMs
        /\ it.socket = "none" /\ ~it.timer /\ it.hot => it.polled

\* Ten reconnect attempts failed: no timer is pending and the hot positions
\* have been polled since.
C26_Witness ==
  /\ WsGaveUp
  /\ Len(svc.ws.delays) = 10
  /\ svc.ws.delays[1] = 2000
  /\ svc.ws.delays[10] = 30000
  /\ \E it \in svc.ws.iterations : it.polled /\ ~it.timer

\* The statement as written: the first delay is 1 s.
C26_BackoffFromOneSecond ==
  Len(svc.ws.delays) >= 1 => svc.ws.delays[1] = 1000

(***************************************************************************)
(* C27: a batchGetSwapQuotes call given N quote pairs issues at most       *)
(* ceil(N / 50) aggregate3 calls (it issues one, or none when no pool      *)
(* quote was built).                                                       *)
(***************************************************************************)
CeilDiv(n, d) == (n + d - 1) \div d

C27_AggregatorCallsBounded ==
  \A i \in 1..Len(svc.quotes.batches) :
     LET b == svc.quotes.batches[i]
     IN /\ b.calls <= CeilDiv(b.pairs, BATCH_CHUNK_SIZE)
        /\ b.calls <= 1

\* A chunked batchPreparePositions call has finished in which one
\* batchGetSwapQuotes call was given more than 50 pairs and issued its
\* aggregate3 call, and another was given a single borrower's pairs.
C27_Witness ==
  /\ svc.quotes.pc = "done"
  /\ svc.quotes.positions > BATCH_CHUNK_SIZE
  /\ \E i \in 1..Len(svc.quotes.batches) :
        svc.quotes.batches[i].pairs > BATCH_CHUNK_SIZE /\ svc.quotes.batches[i].calls = 1
  /\ \E i \in 1..Len(svc.quotes.batches) :
        svc.quotes.batches[i].pairs = Len(Ladder) /\ svc.quotes.batches[i].calls = 1

(***************************************************************************)
(* C28: when the oracle read of a price read fails, the caller gets the    *)
(* last cached value of the asset if there is one, and a failure (no       *)
(* price) otherwise.                                                       *)
(***************************************************************************)
C28_OracleFailureServesCacheOrFails ==
  \A r \in svc.price.last.reads :
     r.oracleRead /\ ~r.oracleOk =>
        IF r.cached.present THEN r.result = Returned(r.cached.price)
        ELSE r.result.kind = "throw"

\* What PricingService.getPrice does keep of the statement: with a cached
\* value and a failing oracle it returns the cached value.
C28_GetPriceServesCacheOnFailure ==
  svc.price.last.fn = "getPrice" =>
     \A r \in svc.price.last.reads :
        r.oracleRead /\ ~r.oracleOk /\ r.cached.present =>
           r.result = Returned(r.cached.price)

(***************************************************************************)
(* C29: a price read less than the TTL after the entry's oracle read is    *)
(* served from the cache without an oracle read; with an entry at least    *)
(* one TTL old the oracle is read first, its answer is what the caller     *)
(* gets, and getCachedPrice and batchGetPrices never hand out the old      *)
(* entry.  (A batch read throws as a whole when the refresh of one of its  *)
(* tokens fails; the tokens served from the cache are then lost with it.)  *)
(***************************************************************************)
BatchRefreshFailed ==
  /\ svc.price.last.fn = "batchGetPrices"
  /\ \E r \in svc.price.last.reads : r.oracleRead /\ ~r.oracleOk

TtlOf(fn) == IF fn = "getPrice" THEN 10000 ELSE 5000

C29_FreshFromCacheStaleRefreshed ==
  \A r \in svc.price.last.reads :
     r.cached.present =>
        IF r.age < TtlOf(svc.price.last.fn)
        THEN /\ ~r.oracleRead
             /\ ~BatchRefreshFailed => r.result = Returned(r.cached.price)
             /\ BatchRefreshFailed => r.result = Thrown
        ELSE /\ r.oracleRead
             /\ r.oracleOk => r.result = Returned(OraclePrice(r.at))
             /\ svc.price.last.fn # "getPrice" => r.result # Returned(r.cached.price)

\* A batch read served one token from the cache without an oracle read and
\* refreshed another whose entry was at least one TTL old.
C29_Witness ==
  /\ svc.price.last.fn = "batchGetPrices"
  /\ \E r \in svc.price.last.reads :
        /\ r.cached.present /\ r.age < CACHE_TTL_MS /\ ~r.oracleRead
        /\ r.result = Returned(r.cached.price)
  /\ \E r \in svc.price.last.reads :
        r.cached.present /\ r.age >= CACHE_TTL_MS /\ r.oracleOk
           /\ r.result = Returned(OraclePrice(r.at))

(***************************************************************************)
(* C30: within one execution attempt the strategies are tried in ascending *)
(* priority number; a strategy is tried only after every applicable        *)
(* strategy of a smaller priority number has failed (no parameters, an     *)
(* error, a reverted simulation or transaction), and none is tried after   *)
(* one has succeeded.                                                      *)
(***************************************************************************)
PriorityNumbers == <<1, 2, 3, 4, 5, 6, 99>>

\* The priority number of the i-th strategy tried.
TriedPriority(i) ==
  CHOOSE k \in 1..Len(PriorityNumbers) :
     StrategyInstances[k] = svc.strategies.tried[i].strategy

C30_StrategiesTriedInPriorityOrder ==
  LET tried == svc.strategies.tried
      handled == {svc.strategies.strategies[i] : i \in DOMAIN svc.strategies.strategies}
  IN /\ \A i \in 1..Len(tried) :
          /\ i > 1 => PriorityNumbers[TriedPriority(i - 1)] < PriorityNumbers[TriedPriority(i)]
          /\ i < Len(tried) => tried[i].outcome # "success"
          \* every applicable strategy of a smaller number was tried before
          /\ \A k \in 1..Len(PriorityNumbers) :
                (StrategyInstances[k] \in handled
                   /\ PriorityNumbers[k] < PriorityNumbers[TriedPriority(i)])
                => \E j \in 1..(i - 1) : tried[j].strategy = StrategyInstances[k]
     /\ svc.strategies.pc = "loop" /\ Len(tried) > 0
          => tried[Len(tried)].outcome # "success"
     /\ svc.strategies.pc = "done" /\ svc.strategies.usedStrategy = "none"
          => Len(tried) = Len(svc.strategies.strategies)

\* The first two applicable strategies failed, one for want of parameters
\* and one in its simulation, the third succeeded and the attempt ended with
\* applicable strategies left.
C30_Witness ==
  /\ svc.strategies.pc = "done"
  /\ Len(svc.strategies.tried) = 3
  /\ Len(svc.strategies.strategies) > 3
  /\ svc.strategies.tried[1].outcome = "noParams"
  /\ svc.strategies.tried[2].outcome = "failed"
  /\ svc.strategies.tried[3].outcome = "success"
  /\ svc.strategies.usedStrategy = svc.strategies.tried[3].strategy

(***************************************************************************)
(* C31: the slippage loop goes on to the next tolerance step of the same   *)
(* strategy only after a failure whose cause is SwapFailed: every step     *)
(* before the current one ended in a SwapFailed revert.                    *)
(***************************************************************************)
C31_NextStepOnlyAfterSwapFailed ==
  \A l \in SlippageLevels :
     l < swap.level => swap.simResult[l] = "SwapFailed"

(***************************************************************************)
(* C32: when no ladder fraction has a positive profit estimate the         *)
(* candidate is rejected and a blacklist failure is recorded, and a        *)
(* failure is recorded only if no fraction of the ladder is profitable.    *)
(***************************************************************************)
C32_RecordedIffNoFractionProfitable ==
  (/\ svc.sizer.pc \in {"adaptive", "batch"}
   /\ \A i \in 1..Len(Ladder) : svc.sizer.profitUsd[Ladder[i]].ok)
  => /\ ProfitablePercentages = {} => svc.sizer.best = 0 /\ svc.sizer.recorded
     /\ svc.sizer.recorded => ProfitablePercentages = {}

\* The half that prepareLiquidationParams keeps: with no profitable fraction
\* it rejects the candidate and records the failure.
C32_AdaptiveRejectionRecorded ==
  (/\ svc.sizer.pc = "adaptive"
   /\ \A i \in 1..Len(Ladder) : svc.sizer.profitUsd[Ladder[i]].ok
   /\ ProfitablePercentages = {})
  => svc.sizer.best = 0 /\ svc.sizer.recorded

\* The half that batchPreparePositions keeps: it never records a failure for
\* a borrower with a profitable fraction, and rejects one with none.
C32_BatchRejects ==
  (/\ svc.sizer.pc = "batch"
   /\ \A i \in 1..Len(Ladder) : svc.sizer.profitUsd[Ladder[i]].ok)
  => /\ ProfitablePercentages = {} => svc.sizer.best = 0
     /\ ~svc.sizer.recorded

(***************************************************************************)
(* C33: a quick check enqueues for background preparation every tracked    *)
(* borrower it observes with 1 < HF < 1.05 that has no valid prepared      *)
(* liquidation and is not being prepared: after the quick check the        *)
(* borrower is in the preparing set.                                       *)
(***************************************************************************)
NeedsPreparation(user, d) ==
  /\ ~IsLiquidatable(d)
  /\ d.hf < PrepareThreshold
  /\ user \notin preparingUsers
  /\ ~getPreparedParams(preparedLiquidations, user, now).has
  /\ ~shouldSkipPosition(failedPositions, user, now)

C33_NearLiquidationEnqueued ==
  [][\A t \in Tasks, data \in EnqueueData :
       (task[t].pc = "qc" /\ QuickCheckObserved(t, data))
       => \A user \in SeqToSet(task[t].hotUsers) :
             NeedsPreparation(user, data[user]) => user \in preparingUsers']_vars

\* What the quick check keeps of the statement: it enqueues every such
\* borrower when it finds no borrower liquidatable.
C33_EnqueuedWhenNoneLiquidatable ==
  [][\A t \in Tasks, data \in EnqueueData :
       (/\ task[t].pc = "qc" /\ QuickCheckObserved(t, data)
        /\ \A u \in SeqToSet(task[t].hotUsers) : ~IsLiquidatable(data[u]))
       => \A user \in SeqToSet(task[t].hotUsers) :
             NeedsPreparation(user, data[user]) => user \in preparingUsers']_vars

(***************************************************************************)
(* C34: when an execution for a borrower ends, on the fast path or on the  *)
(* slow path, with success or with failure, the borrower has no entry in   *)
(* preparedLiquidations.                                                   *)
(***************************************************************************)
\* The step ends executePreparedLiquidation for the head of liq.
FastExecutionEnds(t) ==
  /\ task'[t] # task[t]
  /\ \/ task[t].pc = "fast" /\ task'[t].pc # "fastwait"
     \/ task[t].pc = "fastwait"

\* The step ends main's attempt for the head of todo after a simulation:
\* lastError thrown and caught, or the code after the receipt.
SlowExecutionEnds(t) ==
  /\ task'[t] # task[t]
  /\ \/ task[t].pc = "sim" /\ task'[t].pc \notin {"sim", "wait"}
     \/ task[t].pc = "post"

C34_NoPreparedEntryAfterExecution ==
  [][\A t \in Tasks :
       FastExecutionEnds(t) \/ SlowExecutionEnds(t)
       => ~MapHas(preparedLiquidations', Target(task[t]))]_vars

\* The half that executePreparedLiquidation keeps: the fast path deletes
\* the entry whether the transaction succeeds or not.
C34_FastPathInvalidates ==
  [][\A t \in Tasks :
       FastExecutionEnds(t)
       => ~MapHas(preparedLiquidations', Target(task[t]))]_vars

(***************************************************************************)
(* C35: in each full scan only borrowers the scan found liquidatable       *)
(* (0 < HF <= 1) are attempted, largest totalDebt first, and the scan      *)
(* writes the hot tracker only for borrowers it found warm (1 <= HF < 1.10 *)
(* and debt >= MIN_DEBT_USD).                                              *)
(***************************************************************************)
\* The entries of a tracker.
HotEntries(hp) == {hp[i] : i \in 1..Len(hp)}

\* The borrowers still to be attempted by task t in its scan.
ToAttempt(r) == {r.todo[i] : i \in 1..Len(r.todo)}

C35_ScanCohorts ==
  [][\A t \in Tasks :
       /\ \A data \in [Borrowers -> CohortData] :
            task[t].pc = "scan" /\ MainScanResult(t, data)
            => LET todo == task'[t].todo
               IN /\ \A i \in 1..Len(todo) : IsLiquidatable(data[todo[i]])
                  /\ \A i, j \in 1..Len(todo) :
                       i < j => data[todo[i]].debt >= data[todo[j]].debt
                  /\ \A e \in HotEntries(hotPositions') \ HotEntries(hotPositions) :
                       IsWarm(data[e.user])
       \* after the scan the list is only consumed from its head
       /\ task[t].pc # "scan" /\ task'[t].pc \in {"gate", "fresh", "sim", "wait", "post"}
          => /\ ToAttempt(task'[t]) \subseteq ToAttempt(task[t])
             /\ task'[t].todo \in {task[t].todo, Tail(task[t].todo)}]_vars

\* A scan has queued both borrowers, the larger debt first, and tracked one
\* of them.
C35_Witness ==
  \E t \in Tasks :
    /\ task[t].pc = "sim"
    /\ Len(task[t].todo) = 2
    /\ hotPositions # <<>>

(***************************************************************************)
(* C36: the 0.1% interest buffer is applied exactly once to debtToCover    *)
(* when it is constructed, by main, by prepareLiquidationParams through    *)
(* findOptimalLiquidationPercentage, and by batchPreparePositions.         *)
(***************************************************************************)
\* An amount with the 0.1% buffer added once.
BufferedOnce(base) == base + (base * INTEREST_BUFFER_BPS) \div 10000

\* main and the sizer of prepareLiquidationParams: the amount is the
\* unbuffered one with the buffer added once (the prepared amount is then
\* capped to the token's balance in the pool).
C36_MainAndSizerBufferOnce ==
  /\ sizing.pc = "sized" =>
       sizing.debtToCover =
         BufferedOnce(CapDebt(sizing.userDebt, sizing.debtBalanceInmToken))
  /\ sizing.pc = "prepared" =>
       \E pct \in LIQUIDATION_PERCENTAGES :
         LET buffered == BufferedOnce((sizing.userDebt * pct) \div 100)
         IN sizing.debtToCover \in
              {buffered,
               IF sizing.userDebt > sizing.debtBalanceInmToken
                  /\ sizing.debtBalanceInmToken <= buffered
               THEN sizing.debtBalanceInmToken ELSE buffered}

\* batchPreparePositions stores the amount of a ladder percentage with the
\* buffer added once.
C36_BatchBufferOnce ==
  sizing.pc = "batched" =>
    \E pct \in LIQUIDATION_PERCENTAGES :
      sizing.debtToCover = BufferedOnce((sizing.userDebt * pct) \div 100)

C36_BufferAppliedExactlyOnce == C36_MainAndSizerBufferOnce /\ C36_BatchBufferOnce

\* What batchPreparePositions stores: the bare percentage of the debt.
C36_BatchUnbuffered ==
  sizing.pc = "batched" =>
    \E pct \in LIQUIDATION_PERCENTAGES :
      sizing.debtToCover = (sizing.userDebt * pct) \div 100

(***************************************************************************)
(* C37: runLoop sends the counted "Bot Error" alert once three consecutive *)
(* iterations have failed, and consecutiveErrors is 0 again after the      *)
(* first iteration that ends without an error.                             *)
(***************************************************************************)
\* Iterations i-2, i-1 and i all ended in runLoop's catch.
ThreeFailuresUpTo(i) ==
  /\ i >= MAX_SILENT_ERRORS
  /\ \A k \in (i - MAX_SILENT_ERRORS + 1)..i : svc.rpc.outcomes[k] # "success"

C37_AlertAfterThreeErrorsAndReset ==
  LET outcomes == svc.rpc.outcomes
  IN /\ \A i \in 1..Len(outcomes) :
          ThreeFailuresUpTo(i) => svc.rpc.alerts[i] = "count"
     /\ outcomes # <<>> /\ outcomes[Len(outcomes)] = "success"
          => svc.rpc.consecutiveErrors = 0

\* Three transient errors in a row, the third alerted, then a success.
C37_Witness ==
  /\ Len(svc.rpc.outcomes) = 4
  /\ \A k \in 1..3 : svc.rpc.outcomes[k] = "transient"
  /\ svc.rpc.alerts = <<"none", "none", "count", "none">>
  /\ svc.rpc.outcomes[4] = "success"
  /\ svc.rpc.consecutiveErrors = 0

(***************************************************************************)
(* C38: within a full scan the borrowers of unhealthyUsers are processed   *)
(* one after the other, and 5 s pass after each borrower's turn before the *)
(* next one begins.                                                        *)
(***************************************************************************)
\* Turn i+1 begins at least pause ms after turn i ended.
PausedAfter(i, pause) ==
  svc.backpressure.turns[i + 1].start >= svc.backpressure.turns[i].end + pause

C38_PauseAfterEveryBorrower ==
  \A i \in 1..(Len(svc.backpressure.turns) - 1) : PausedAfter(i, 5000)

\* Amended: the turns never overlap, and the 5 s pass after every turn that
\* reached the simulations; a borrower passed over by `continue` (no
\* balances, dust, blacklisted, health factor recovered) is followed at once.
C38_PauseAfterSimulatedAttempt ==
  \A i \in 1..(Len(svc.backpressure.turns) - 1) :
    /\ PausedAfter(i, 0)
    /\ svc.backpressure.turns[i].attempted => PausedAfter(i, 5000)

\* An attempt that reached the simulations was followed by another turn.
C38_Witness ==
  /\ Len(svc.backpressure.turns) >= 2
  /\ svc.backpressure.turns[1].attempted
  /\ svc.backpressure.turns[2].start >= svc.backpressure.turns[1].end + 5000

(***************************************************************************)
(* C39: every borrower added to preparingUsers is eventually removed from  *)
(* it, whichever way its preparation ends.                                 *)
(***************************************************************************)
C39_SentinelEventuallyReleased ==
  \A u \in Borrowers : (u \in preparingUsers) ~> (u \notin preparingUsers)

\* The same as a property of states: a borrower is in preparingUsers only
\* while a preparation that holds it is suspended.
C39_SentinelOnlyWhilePreparing ==
  \A u \in preparingUsers : \E j \in Jobs : job[j].pc # "idle" /\ u \in job[j].toProcess

\* A sentinel that no suspended preparation holds is never removed.
C39_LeakedSentinelStays ==
  [][\A u \in preparingUsers :
       (\A j \in Jobs : job[j].pc = "idle" \/ u \notin job[j].toProcess)
       => u \in preparingUsers']_vars

(***************************************************************************)
(* C40: no borrower is at the same time in preparingUsers and in           *)
(* preparedLiquidations.                                                   *)
(***************************************************************************)
C40_SentinelAndEntryDisjoint ==
  \A u \in Borrowers : ~(u \in preparingUsers /\ MapHas(preparedLiquidations, u))

\* One borrower's entry has been stored and its sentinel released while the
\* other borrower is being prepared.
C40_Witness ==
  \E u, v \in Borrowers :
    /\ MapHas(preparedLiquidations, u)
    /\ u \notin preparingUsers
    /\ v \in preparingUsers
    /\ \E j \in Jobs : job[j].pc # "idle" /\ v \in job[j].toProcess

=============================================================================
